---- MODULE Spec2Model ----
(***************************************************************************)
(* gsession: session identifiers backed by a record store.                 *)
(*                                                                         *)
(* The model follows src/session.go (Manager), src/memory_store.go         *)
(* (MemoryStore, the version with Expiry, lines 103-200) and               *)
(* src/file_store.go (FileStore over Badger, values gob-encoded).          *)
(*                                                                         *)
(* Time is a discrete clock `now` that never goes back; every step reads   *)
(* time.Now() as the current value of `now`.  uuid.New() is a counter: an  *)
(* identifier is never drawn twice.                                        *)
(***************************************************************************)
EXTENDS Integers, Sequences, FiniteSets, TLC

VARIABLES
    now,        \* the wall clock read by time.Now()
    backend,    \* which Store the Manager was given: "memory" or "file"
    shelf,      \* MemoryStore.shelf (id -> *Session) / the Badger key space (id -> bytes)
    heap,       \* Go maps allocated by make(map[string]interface{}): ref -> contents
    nextRef,    \* next free map reference
    nextId,     \* next identifier uuid.New() returns
    nreq,       \* number of requests that have arrived
    known,      \* identifiers delivered to clients in a cookie
    pc,         \* where each request goroutine stands
    req,        \* the locals of each request goroutine
    txn,        \* the read-write Badger transaction each goroutine has open
    sweep       \* the Badger transaction of FileStore.expire

vars == <<now, backend, shelf, heap, nextRef, nextId, nreq, known, pc, req, txn, sweep>>

----------------------------------------------------------------------------
(* Bounds of the model *)

MaxTime == 4
MaxReqs == 2

Procs == {"r1"}
Keys == {"k1"}
Vals == {"v1"}
Toks == {"ruslan"}
ResetArgs == {FALSE}
Backends == {"memory", "file"}

(* Manager.expiry and Manager.idle, as passed to New, in clock ticks *)
expiry == 2
idle == 1

----------------------------------------------------------------------------
(* Errors and validation results *)

Nil == "nil"
ErrSessionNilContext == "ErrSessionNilContext"
ErrSessionKeyInvalid == "ErrSessionKeyInvalid"
ErrSessionNoRecord == "ErrSessionNoRecord"
ErrKeyNotFound == "badger.ErrKeyNotFound"
ErrGob == "unexpected EOF"
ErrConflict == "badger.ErrConflict"
Panic == "panic: assignment to entry in nil map"

sesError == "sesError"
sesExpired == "sesExpired"
sesInvalid == "sesInvalid"
sesIdle == "sesIdle"
sesPass == "sesPass"
NoVal == "none"

(* Identifiers: NoId is the empty string (no cookie, no context value), 1, 2, ...
   are drawn by uuid.New(), WrongId is a string a client made up. *)
NoId == 0
WrongId == -1

----------------------------------------------------------------------------
(* Session.Data is a Go map, that is a reference.  In the memory store the
   stored *Session and every copy `scp := *ses` point to one map: tag "ref".
   A Session decoded by decGob owns a map nobody else can reach: it is held
   by value, tag "val".  Tag "nil" is the nil map. *)

EmptyMap == [k \in {} |-> ""]
MapNil == [tag |-> "nil", ref |-> 0, kv |-> EmptyMap]
MapRef(r) == [tag |-> "ref", ref |-> r, kv |-> EmptyMap]
MapVal(m) == [tag |-> "val", ref |-> 0, kv |-> m]

MapSet(m, k, v) == [x \in (DOMAIN m) \cup {k} |-> IF x = k THEN v ELSE m[x]]
MapDel(m, k) == [x \in (DOMAIN m) \ {k} |-> m[x]]

(* The contents a map value shows when it is read. *)
Contents(d, hp) == IF d.tag = "ref" THEN hp[d.ref] ELSE d.kv

(* The zero Session: 0 is the zero time.Time. *)
NilSes == [Expiry |-> 0, Tstamp |-> 0, Token |-> "", Data |-> MapNil]

----------------------------------------------------------------------------
(* The closures the Manager hands to Store.Update, as data. *)

Fn(op, k, v, osd) == [op |-> op, k |-> k, v |-> v, osd |-> osd]
fnTouch == Fn("touch", "", "", NilSes)
fnSet(k, v) == Fn("set", k, v, NilSes)
fnDelete(k) == Fn("delete", k, "", NilSes)
fnToken(t) == Fn("token", "", t, NilSes)
fnAssign(osd) == Fn("assign", "", "", osd)

Out(ses, hp, panic) == [ses |-> ses, heap |-> hp, panic |-> panic]

(* TouchFn with a sliding expiry: the touch also moves Expiry. *)
TouchFn_Sliding(ses, hp) ==
    Out([ses EXCEPT !.Tstamp = now, !.Expiry = now + expiry], hp, FALSE)

(* TouchFn that writes the zero time. *)
TouchFn_ZeroTime(ses, hp) == Out([ses EXCEPT !.Tstamp = 0], hp, FALSE)

(* ses.Tstamp = time.Now() *)
TouchFn(ses, hp) == Out([ses EXCEPT !.Tstamp = now], hp, FALSE)

(* SetFn that stores a map holding k alone. *)
SetFn_Replaces(ses, hp, k, v) ==
    CASE ses.Data.tag = "ref" ->
            Out(ses, [hp EXCEPT ![ses.Data.ref] = MapSet(EmptyMap, k, v)], FALSE)
      [] ses.Data.tag = "val" ->
            Out([ses EXCEPT !.Data = MapVal(MapSet(EmptyMap, k, v))], hp, FALSE)
      [] OTHER -> Out(ses, hp, TRUE)

(* ses.Data[k] = v *)
SetFn(ses, hp, k, v) ==
    CASE ses.Data.tag = "ref" ->
            Out(ses, [hp EXCEPT ![ses.Data.ref] = MapSet(@, k, v)], FALSE)
      [] ses.Data.tag = "val" ->
            Out([ses EXCEPT !.Data = MapVal(MapSet(ses.Data.kv, k, v))], hp, FALSE)
      [] OTHER -> Out(ses, hp, TRUE)

(* delete(ses.Data, k) *)
DeleteFn(ses, hp, k) ==
    CASE ses.Data.tag = "ref" ->
            Out(ses, [hp EXCEPT ![ses.Data.ref] = MapDel(@, k)], FALSE)
      [] ses.Data.tag = "val" ->
            Out([ses EXCEPT !.Data = MapVal(MapDel(ses.Data.kv, k))], hp, FALSE)
      [] OTHER -> Out(ses, hp, FALSE)

(* TokenFn that also pushes Expiry out, as a sliding session would. *)
TokenFn_Extends(ses, hp, t) ==
    Out([ses EXCEPT !.Token = t, !.Expiry = now + expiry], hp, FALSE)

(* TokenFn that also touches Tstamp. *)
TokenFn_Touches(ses, hp, t) == Out([ses EXCEPT !.Token = t, !.Tstamp = now], hp, FALSE)

(* ses.Token = *t *)
TokenFn(ses, hp, t) == Out([ses EXCEPT !.Token = t], hp, FALSE)

(* AssignFn copying the fields one by one and forgetting Expiry. *)
AssignFn_KeepsExpiry(ses, hp, osd) == Out([osd EXCEPT !.Expiry = ses.Expiry], hp, FALSE)

(* AssignFn that leaves the new record its own map. *)
AssignFn_OwnData(ses, hp, osd) == Out([osd EXCEPT !.Data = ses.Data], hp, FALSE)

(* *ses = *osd : every field, the map reference included *)
AssignFn(ses, hp, osd) == Out(osd, hp, FALSE)

Apply(fn, ses, hp) ==
    CASE fn.op = "touch" -> TouchFn(ses, hp)
      [] fn.op = "set" -> SetFn(ses, hp, fn.k, fn.v)
      [] fn.op = "delete" -> DeleteFn(ses, hp, fn.k)
      [] fn.op = "token" -> TokenFn(ses, hp, fn.v)
      [] OTHER -> AssignFn(ses, hp, fn.osd)

----------------------------------------------------------------------------
(* What a Store call returns: the store after it, the error, the Session read
   (Read only), the transaction left open (FileStore.Update only) and the
   keys a committed Badger transaction wrote. *)

NoBytes == [Expiry |-> <<>>, Tstamp |-> <<>>, Token |-> <<>>, Data |-> <<>>]
NoTxn == [live |-> FALSE, key |-> NoId, val |-> NoBytes, stale |-> FALSE]

Ret(sh, hp, nr, err, ses, tx, wrote) ==
    [shelf |-> sh, heap |-> hp, nextRef |-> nr, err |-> err, ses |-> ses,
     txn |-> tx, wrote |-> wrote]

Put(f, k, v) == [x \in (DOMAIN f) \cup {k} |-> IF x = k THEN v ELSE f[x]]
Drop(f, ks) == [x \in (DOMAIN f) \ ks |-> f[x]]

(* NewSession without the Tstamp field set. *)
NewSession_ZeroTstamp(exp, d) ==
    [Expiry |-> now + exp, Tstamp |-> 0, Token |-> "", Data |-> d]

(* The Session literal of Create, with the map that make() returned. *)
NewSession(exp, d) ==
    [Expiry |-> now + exp, Tstamp |-> now, Token |-> "", Data |-> d]

----------------------------------------------------------------------------
(* MemoryStore: every method runs under the store's lock, so it is one step. *)

(* MemoryStore.Create that leaves an existing record alone. *)
MemCreate_KeepsExisting(id, exp) ==
    IF id \in DOMAIN shelf
    THEN Ret(shelf, heap, nextRef, Nil, NilSes, NoTxn, {})
    ELSE Ret(Put(shelf, id, NewSession(exp, MapRef(nextRef))),
             Put(heap, nextRef, EmptyMap), nextRef + 1, Nil, NilSes, NoTxn, {})

MemCreate(id, exp) ==
    Ret(Put(shelf, id, NewSession(exp, MapRef(nextRef))),
        Put(heap, nextRef, EmptyMap), nextRef + 1, Nil, NilSes, NoTxn, {})

MemRead(id) ==
    IF id \in DOMAIN shelf
    THEN Ret(shelf, heap, nextRef, Nil, shelf[id], NoTxn, {})
    ELSE Ret(shelf, heap, nextRef, ErrSessionNoRecord, NilSes, NoTxn, {})

MemUpdate(id, fn) ==
    IF id \in DOMAIN shelf
    THEN LET o == Apply(fn, shelf[id], heap)
         IN  Ret([shelf EXCEPT ![id] = o.ses], o.heap, nextRef,
                 IF o.panic THEN Panic ELSE Nil, NilSes, NoTxn, {})
    ELSE Ret(shelf, heap, nextRef, ErrSessionNoRecord, NilSes, NoTxn, {})

(* MemoryStore.Delete that reports a missing record. *)
MemDelete_Strict(id) ==
    Ret(Drop(shelf, {id}), heap, nextRef,
        IF id \in DOMAIN shelf THEN Nil ELSE ErrSessionNoRecord, NilSes, NoTxn, {})

MemDelete(id) == Ret(Drop(shelf, {id}), heap, nextRef, Nil, NilSes, NoTxn, {})

(* The run() closure of MemoryStore.expire: one pass under the lock. *)
MemExpire ==
    Ret(Drop(shelf, {key \in DOMAIN shelf : now > shelf[key].Expiry}),
        heap, nextRef, Nil, NilSes, NoTxn, {})

----------------------------------------------------------------------------
(* gob: a struct is sent field by field, a field holding the zero value of
   its type is left out, a map that is empty but not nil is sent.  The bytes
   are a record of optional fields: <<>> for a field left out. *)

(* encGob leaving out a map that is empty, as gob does with empty slices. *)
encGob_DropsEmpty(ses, hp) ==
    [Expiry |-> IF ses.Expiry = 0 THEN <<>> ELSE <<ses.Expiry>>,
     Tstamp |-> IF ses.Tstamp = 0 THEN <<>> ELSE <<ses.Tstamp>>,
     Token |-> IF ses.Token = "" THEN <<>> ELSE <<ses.Token>>,
     Data |-> IF ses.Data.tag = "nil" \/ Contents(ses.Data, hp) = EmptyMap
              THEN <<>> ELSE <<Contents(ses.Data, hp)>>]

encGob(ses, hp) ==
    [Expiry |-> IF ses.Expiry = 0 THEN <<>> ELSE <<ses.Expiry>>,
     Tstamp |-> IF ses.Tstamp = 0 THEN <<>> ELSE <<ses.Tstamp>>,
     Token |-> IF ses.Token = "" THEN <<>> ELSE <<ses.Token>>,
     Data |-> IF ses.Data.tag = "nil" THEN <<>> ELSE <<Contents(ses.Data, hp)>>]

(* Bytes that are not the encoding of a Session (no encoding sends a zero):
   dec.Decode returns an error for them. *)
Garbage == [Expiry |-> <<0>>, Tstamp |-> <<>>, Token |-> <<>>, Data |-> <<>>]
Decodes(bts) == bts # Garbage

(* Decoding into new(Session): a field left out keeps its zero value. *)
decGob(bts) ==
    [Expiry |-> IF bts.Expiry = <<>> THEN 0 ELSE bts.Expiry[1],
     Tstamp |-> IF bts.Tstamp = <<>> THEN 0 ELSE bts.Tstamp[1],
     Token |-> IF bts.Token = <<>> THEN "" ELSE bts.Token[1],
     Data |-> IF bts.Data = <<>> THEN MapNil ELSE MapVal(bts.Data[1])]

----------------------------------------------------------------------------
(* FileStore.  A Badger transaction reads the snapshot taken when it starts
   and commits atomically.  Create and Delete write without reading, Read
   only reads: each is one step.  Update reads the key, so DB.Update is two
   steps: the closure runs on the snapshot (FsUpdate), then Commit writes,
   unless the key was written by a transaction that committed in between:
   then Commit returns badger.ErrConflict and writes nothing (FsCommit). *)

FsCreate(id, exp) ==
    Ret(Put(shelf, id, encGob(NewSession(exp, MapVal(EmptyMap)), heap)),
        heap, nextRef, Nil, NilSes, NoTxn, {id})

FsRead(id) ==
    IF id \in DOMAIN shelf
    THEN IF Decodes(shelf[id])
         THEN Ret(shelf, heap, nextRef, Nil, decGob(shelf[id]), NoTxn, {})
         ELSE Ret(shelf, heap, nextRef, ErrGob, NilSes, NoTxn, {})
    ELSE Ret(shelf, heap, nextRef, ErrSessionNoRecord, NilSes, NoTxn, {})

FsUpdate(id, fn) ==
    IF id \in DOMAIN shelf
    THEN IF ~Decodes(shelf[id])
         THEN Ret(shelf, heap, nextRef, ErrGob, NilSes, NoTxn, {})
         ELSE
         LET o == Apply(fn, decGob(shelf[id]), heap)
         IN  IF o.panic
             THEN Ret(shelf, heap, nextRef, Panic, NilSes, NoTxn, {})
             ELSE Ret(shelf, heap, nextRef, Nil, NilSes,
                      [live |-> TRUE, key |-> id, val |-> encGob(o.ses, o.heap),
                       stale |-> FALSE], {})
    ELSE Ret(shelf, heap, nextRef, ErrKeyNotFound, NilSes, NoTxn, {})

FsCommit(tx) ==
    IF tx.stale
    THEN Ret(shelf, heap, nextRef, ErrConflict, NilSes, NoTxn, {})
    ELSE Ret(Put(shelf, tx.key, tx.val), heap, nextRef, Nil, NilSes, NoTxn, {tx.key})

FsDelete(id) == Ret(Drop(shelf, {id}), heap, nextRef, Nil, NilSes, NoTxn, {id})

----------------------------------------------------------------------------
(* The Store interface, as the Manager calls it. *)

storeCreate(id, exp) == IF backend = "memory" THEN MemCreate(id, exp) ELSE FsCreate(id, exp)
storeRead(id) == IF backend = "memory" THEN MemRead(id) ELSE FsRead(id)
storeUpdate(id, fn) == IF backend = "memory" THEN MemUpdate(id, fn) ELSE FsUpdate(id, fn)
storeDelete(id) == IF backend = "memory" THEN MemDelete(id) ELSE FsDelete(id)

(* A committed write makes every open transaction that read the key stale. *)
Stale(tx, ks) == IF tx.live /\ tx.key \in ks THEN [tx EXCEPT !.stale = TRUE] ELSE tx
StaleSweep(sw, ks) ==
    IF sw.live /\ sw.reads \cap ks # {} THEN [sw EXCEPT !.stale = TRUE] ELSE sw

(* The store after goroutine p's call returned r. *)
Effect(p, r) ==
    /\ shelf' = r.shelf
    /\ heap' = r.heap
    /\ nextRef' = r.nextRef
    /\ txn' = [q \in DOMAIN txn |-> IF q = p THEN r.txn ELSE Stale(txn[q], r.wrote)]
    /\ sweep' = StaleSweep(sweep, r.wrote)

NoStore == UNCHANGED <<shelf, heap, nextRef, txn, sweep>>

----------------------------------------------------------------------------
(* The locals of one request goroutine.
     op    the Manager entry point that is running ("register", "Set", ...)
     jar   the value of the inbound cookie
     id    the variable id of register / reset / Remove
     val   what validate returned
     osd   the Session reset read
     zero  reset's parameter t
     ctx   the value stored in the request context under sesID
     err   the error the last entry point returned
     out   the cookie put in the response
     res   the value the last Get / Token returned
     key   the key the handler passed to the last Set / Get / Delete
     arg   the value the handler passed to the last Set / Token *)

NoJar == [id |-> NoId, exp |-> 0, path |-> "", httpOnly |-> FALSE]

Fresh ==
    [op |-> "", jar |-> NoId, id |-> NoId, val |-> NoVal, osd |-> NilSes,
     zero |-> FALSE, ctx |-> NoId, err |-> Nil, out |-> NoJar, res |-> "",
     key |-> "", arg |-> ""]

(* validate with the idle check placed before the expiry check. *)
validate_IdleFirst(id) ==
    LET r == storeRead(id)
    IN  IF r.err # Nil
        THEN IF r.err = ErrSessionNoRecord
             THEN [val |-> sesInvalid, err |-> Nil]
             ELSE [val |-> sesError, err |-> r.err]
        ELSE IF now > r.ses.Tstamp + idle
             THEN [val |-> sesIdle, err |-> Nil]
             ELSE IF now > r.ses.Expiry
                  THEN [val |-> sesExpired, err |-> Nil]
                  ELSE [val |-> sesPass, err |-> Nil]

(* validate without the test of Expiry. *)
validate_NoExpiry(id) ==
    LET r == storeRead(id)
    IN  IF r.err # Nil
        THEN IF r.err = ErrSessionNoRecord
             THEN [val |-> sesInvalid, err |-> Nil]
             ELSE [val |-> sesError, err |-> r.err]
        ELSE IF now > r.ses.Tstamp + idle
             THEN [val |-> sesIdle, err |-> Nil]
             ELSE [val |-> sesPass, err |-> Nil]

(* validate that takes every error of Read for a missing record. *)
validate_Swallows(id) ==
    LET r == storeRead(id)
    IN  IF r.err # Nil
        THEN [val |-> sesInvalid, err |-> Nil]
        ELSE IF now > r.ses.Expiry
             THEN [val |-> sesExpired, err |-> Nil]
             ELSE IF now > r.ses.Tstamp + idle
                  THEN [val |-> sesIdle, err |-> Nil]
                  ELSE [val |-> sesPass, err |-> Nil]

(* Manager.validate *)
validate(id) ==
    LET r == storeRead(id)
    IN  IF r.err # Nil
        THEN IF r.err = ErrSessionNoRecord
             THEN [val |-> sesInvalid, err |-> Nil]
             ELSE [val |-> sesError, err |-> r.err]
        ELSE IF now > r.ses.Expiry
             THEN [val |-> sesExpired, err |-> Nil]
             ELSE IF now > r.ses.Tstamp + idle
                  THEN [val |-> sesIdle, err |-> Nil]
                  ELSE [val |-> sesPass, err |-> Nil]

(* sesCtx without the test for the empty string. *)
sesCtx_NoCheck(rq) == [id |-> rq.ctx, err |-> Nil]

(* sesCtx *)
sesCtx(rq) ==
    IF rq.ctx = NoId
    THEN [id |-> NoId, err |-> ErrSessionNilContext]
    ELSE [id |-> rq.ctx, err |-> Nil]

(* Manager.putCookie: the http.Cookie literal *)
putCookie(id) == [id |-> id, exp |-> now + expiry, path |-> "/", httpOnly |-> FALSE]

(* ResetOsd that re-touches Tstamp and leaves the token. *)
ResetOsd_KeepsToken(osd, t) == IF t THEN [osd EXCEPT !.Tstamp = now] ELSE osd

(* reset, between Create and Update: if t { osd.Token = ""; osd.Tstamp = time.Now() } *)
ResetOsd(osd, t) == IF t THEN [osd EXCEPT !.Token = "", !.Tstamp = now] ELSE osd

(* Where an entry point that failed with e leaves the request: register's
   error makes Use answer 500 without calling the handler; the error of a
   call made by the handler goes back to the handler. *)
Failed(p, e) ==
    IF req[p].op = "register"
    THEN [pc |-> "failed", rq |-> [req[p] EXCEPT !.err = e]]
    ELSE [pc |-> "called", rq |-> [req[p] EXCEPT !.err = e, !.res = ""]]

(* What follows a call of store.Update that returned e. *)
AfterUpdate(p, e) ==
    CASE pc[p] = "touch" ->
            IF e # Nil THEN Failed(p, e)
            ELSE [pc |-> "handler", rq |-> [req[p] EXCEPT !.ctx = req[p].id]]
      [] pc[p] = "resetUpdate" ->
            IF e # Nil THEN Failed(p, e)
            ELSE [pc |-> "cookie", rq |-> req[p]]
      [] OTHER ->
            IF e # Nil THEN Failed(p, e)
            ELSE [pc |-> "called", rq |-> [req[p] EXCEPT !.err = Nil]]

Goto(p, k) ==
    /\ pc' = [pc EXCEPT ![p] = k.pc]
    /\ req' = [req EXCEPT ![p] = k.rq]

(* A call of store.Update by p whose closure is fn, made at pc[p].  On the
   memory store the call returns in this step; on the file store it returns
   here only when the closure failed, else the transaction stays open. *)
CallUpdate(p, id, fn) ==
    LET r == storeUpdate(id, fn)
    IN  /\ Effect(p, r)
        /\ IF r.txn.live
           THEN UNCHANGED <<pc, req>>
           ELSE Goto(p, AfterUpdate(p, r.err))

(* Txn.Commit of the transaction p has open. *)
Commit(p) ==
    /\ txn[p].live
    /\ LET r == FsCommit(txn[p])
       IN  /\ Effect(p, r)
           /\ Goto(p, AfterUpdate(p, r.err))
    /\ UNCHANGED <<now, backend, nextId, nreq, known>>

----------------------------------------------------------------------------
(* Manager.Use / Manager.register *)

(* A request arrives with cookie c: register reads the cookie. *)
Start(p, c) ==
    /\ pc[p] = "idle"
    /\ nreq < MaxReqs
    /\ nreq' = nreq + 1
    /\ pc' = [pc EXCEPT ![p] = IF c # NoId THEN "validate" ELSE "create"]
    /\ req' = [req EXCEPT ![p] = [Fresh EXCEPT !.op = "register", !.jar = c, !.id = c]]
    /\ NoStore
    /\ UNCHANGED <<now, backend, nextId, known>>

(* Validate sending an Expired record down the renewal branch, as if
   register tested val != sesPass instead of val == sesIdle. *)
Validate_RenewsExpired(p) ==
    /\ pc[p] = "validate"
    /\ LET v == validate(req[p].id)
       IN  IF v.err # Nil
           THEN Goto(p, Failed(p, v.err))
           ELSE /\ req' = [req EXCEPT ![p].val = v.val,
                                     ![p].zero = (v.val \in {sesIdle, sesExpired})]
                /\ pc' = [pc EXCEPT ![p] =
                            CASE v.val = sesPass -> "touch"
                              [] v.val \in {sesIdle, sesExpired} -> "resetRead"
                              [] OTHER -> "create"]
    /\ NoStore
    /\ UNCHANGED <<now, backend, nextId, nreq, known>>

(* val, err := m.validate(id); the idle branch calls m.reset(w, r, id, true) *)
Validate(p) ==
    /\ pc[p] = "validate"
    /\ LET v == validate(req[p].id)
       IN  IF v.err # Nil
           THEN Goto(p, Failed(p, v.err))
           ELSE /\ req' = [req EXCEPT ![p].val = v.val,
                                     ![p].zero = (v.val = sesIdle)]
                /\ pc' = [pc EXCEPT ![p] =
                            CASE v.val = sesPass -> "touch"
                              [] v.val = sesIdle -> "resetRead"
                              [] OTHER -> "create"]
    /\ NoStore
    /\ UNCHANGED <<now, backend, nextId, nreq, known>>

(* val == sesPass: m.store.Update(id, func(ses) { ses.Tstamp = time.Now() }) *)
Touch(p) ==
    /\ pc[p] = "touch"
    /\ ~txn[p].live
    /\ CallUpdate(p, req[p].id, fnTouch)
    /\ UNCHANGED <<now, backend, nextId, nreq, known>>

(* reset: osd, err := m.store.Read(id) *)
ResetRead(p) ==
    /\ pc[p] = "resetRead"
    /\ LET r == storeRead(req[p].id)
       IN  IF r.err # Nil
           THEN Goto(p, Failed(p, r.err))
           ELSE /\ req' = [req EXCEPT ![p].osd = r.ses]
                /\ pc' = [pc EXCEPT ![p] = "resetCreate"]
    /\ NoStore
    /\ UNCHANGED <<now, backend, nextId, nreq, known>>

(* reset: id = uuid.New().String(); err = m.store.Create(id, m.expiry) *)
ResetCreate(p) ==
    /\ pc[p] = "resetCreate"
    /\ Effect(p, storeCreate(nextId, expiry))
    /\ req' = [req EXCEPT ![p].id = nextId]
    /\ pc' = [pc EXCEPT ![p] = "resetUpdate"]
    /\ nextId' = nextId + 1
    /\ UNCHANGED <<now, backend, nreq, known>>

(* reset: m.store.Update(id, func(ses) { *ses = *osd }) *)
ResetUpdate(p) ==
    /\ pc[p] = "resetUpdate"
    /\ ~txn[p].live
    /\ LET osd == ResetOsd(req[p].osd, req[p].zero)
           r == storeUpdate(req[p].id, fnAssign(osd))
           k == AfterUpdate(p, r.err)
       IN  /\ Effect(p, r)
           /\ IF r.txn.live
              THEN /\ pc' = pc
                   /\ req' = [req EXCEPT ![p].osd = osd]
              ELSE Goto(p, [k EXCEPT !.rq.osd = osd])
    /\ UNCHANGED <<now, backend, nextId, nreq, known>>

(* register / Remove: id = uuid.New().String(); err = m.store.Create(id, m.expiry) *)
NewRecord(p) ==
    /\ pc[p] = "create"
    /\ Effect(p, storeCreate(nextId, expiry))
    /\ req' = [req EXCEPT ![p].id = nextId]
    /\ pc' = [pc EXCEPT ![p] = "cookie"]
    /\ nextId' = nextId + 1
    /\ UNCHANGED <<now, backend, nreq, known>>

(* m.putCookie(w, id), then the return: register hands the identifier to Use,
   which stores it in the request context and calls the handler. *)
PutCookie(p) ==
    /\ pc[p] = "cookie"
    /\ req' = [req EXCEPT ![p].out = putCookie(req[p].id),
                          ![p].err = Nil,
                          ![p].ctx = IF req[p].op = "register" THEN req[p].id ELSE @]
    /\ pc' = [pc EXCEPT ![p] = IF req[p].op = "register" THEN "handler" ELSE "called"]
    /\ known' = known \cup {req[p].id}
    /\ NoStore
    /\ UNCHANGED <<now, backend, nextId, nreq>>

----------------------------------------------------------------------------
(* What the handler may call. *)

(* A handler that is not wrapped by Use: its context holds no identifier. *)
Bare(p) ==
    /\ pc[p] = "idle"
    /\ nreq < MaxReqs
    /\ nreq' = nreq + 1
    /\ pc' = [pc EXCEPT ![p] = "handler"]
    /\ req' = [req EXCEPT ![p] = Fresh]
    /\ NoStore
    /\ UNCHANGED <<now, backend, nextId, known>>

(* The handler, as in the tests, switches on the request and makes one call
   of the Manager: pc goes from "handler" to "called". *)
Callable(p) == pc[p] = "handler"

(* An entry point that begins with sesCtx(r) and then calls store.Update. *)
Mutate(p, op, fn, res) ==
    /\ Callable(p)
    /\ LET c == sesCtx(req[p])
           rq == [req[p] EXCEPT !.op = op, !.res = res, !.err = Nil,
                               !.key = fn.k, !.arg = fn.v]
       IN  IF c.err # Nil
           THEN /\ req' = [req EXCEPT ![p] = [rq EXCEPT !.err = c.err, !.res = ""]]
                /\ pc' = [pc EXCEPT ![p] = "called"]
                /\ NoStore
           ELSE LET r == storeUpdate(c.id, fn)
                IN  /\ Effect(p, r)
                    /\ IF r.txn.live
                       THEN /\ pc' = [pc EXCEPT ![p] = "update"]
                            /\ req' = [req EXCEPT ![p] = rq]
                       ELSE /\ pc' = [pc EXCEPT ![p] = "called"]
                            /\ req' = [req EXCEPT ![p] =
                                 IF r.err # Nil
                                 THEN [rq EXCEPT !.err = r.err, !.res = ""]
                                 ELSE rq]
    /\ UNCHANGED <<now, backend, nextId, nreq, known>>

(* Manager.Set *)
Set(p, k, v) == Mutate(p, "Set", fnSet(k, v), "")

(* Manager.Delete *)
Delete(p, k) == Mutate(p, "Delete", fnDelete(k), "")

(* Manager.Token with t != nil *)
TokenSet(p, t) == Mutate(p, "Token", fnToken(t), t)

(* Manager.Get after sesCtx: ses, err := m.store.Read(id), then
   if v, ok := ses.Data[k]; ok { return v, nil }; return "", ErrSessionKeyInvalid *)
getData(id, k) ==
    LET r == storeRead(id)
        d == Contents(r.ses.Data, heap)
    IN  IF r.err # Nil THEN [res |-> "", err |-> r.err]
        ELSE IF k \in DOMAIN d THEN [res |-> d[k], err |-> Nil]
        ELSE [res |-> "", err |-> ErrSessionKeyInvalid]

(* Manager.Get *)
Get(p, k) ==
    /\ Callable(p)
    /\ LET c == sesCtx(req[p])
           o == IF c.err # Nil THEN [res |-> "", err |-> c.err]
                ELSE getData(c.id, k)
       IN  req' = [req EXCEPT ![p] =
                     [req[p] EXCEPT !.op = "Get", !.res = o.res, !.err = o.err,
                                   !.key = k, !.arg = ""]]
    /\ pc' = [pc EXCEPT ![p] = "called"]
    /\ NoStore
    /\ UNCHANGED <<now, backend, nextId, nreq, known>>

(* Manager.Token with t == nil *)
TokenGet(p) ==
    /\ Callable(p)
    /\ LET c == sesCtx(req[p])
           r == storeRead(c.id)
           o == IF c.err # Nil THEN [res |-> "", err |-> c.err]
                ELSE IF r.err # Nil THEN [res |-> "", err |-> r.err]
                ELSE [res |-> r.ses.Token, err |-> Nil]
       IN  req' = [req EXCEPT ![p] =
                     [req[p] EXCEPT !.op = "Token", !.res = o.res, !.err = o.err,
                                   !.key = "", !.arg = ""]]
    /\ pc' = [pc EXCEPT ![p] = "called"]
    /\ NoStore
    /\ UNCHANGED <<now, backend, nextId, nreq, known>>

(* Remove that goes on to Create without m.store.Delete(id). *)
Remove_KeepsOld(p) ==
    /\ Callable(p)
    /\ LET c == sesCtx(req[p])
           rq == [req[p] EXCEPT !.op = "Remove", !.res = "", !.err = Nil,
                               !.key = "", !.arg = ""]
       IN  IF c.err # Nil
           THEN /\ req' = [req EXCEPT ![p] = [rq EXCEPT !.err = c.err]]
                /\ pc' = [pc EXCEPT ![p] = "called"]
           ELSE /\ req' = [req EXCEPT ![p] = [rq EXCEPT !.id = c.id]]
                /\ pc' = [pc EXCEPT ![p] = "create"]
    /\ NoStore
    /\ UNCHANGED <<now, backend, nextId, nreq, known>>

(* Manager.Remove: sesCtx, then m.store.Delete(id); the Create and the
   cookie follow as in register. *)
Remove(p) ==
    /\ Callable(p)
    /\ LET c == sesCtx(req[p])
           rq == [req[p] EXCEPT !.op = "Remove", !.res = "", !.err = Nil,
                               !.key = "", !.arg = ""]
       IN  IF c.err # Nil
           THEN /\ req' = [req EXCEPT ![p] = [rq EXCEPT !.err = c.err]]
                /\ pc' = [pc EXCEPT ![p] = "called"]
                /\ NoStore
           ELSE /\ Effect(p, storeDelete(c.id))
                /\ req' = [req EXCEPT ![p] = [rq EXCEPT !.id = c.id]]
                /\ pc' = [pc EXCEPT ![p] = "create"]
    /\ UNCHANGED <<now, backend, nextId, nreq, known>>

(* Manager.Reset(w, r, t): sesCtx, then reset(w, r, id, t) and putCookie. *)
Reset(p, t) ==
    /\ Callable(p)
    /\ LET c == sesCtx(req[p])
           rq == [req[p] EXCEPT !.op = "Reset", !.res = "", !.err = Nil,
                               !.key = "", !.arg = ""]
       IN  IF c.err # Nil
           THEN /\ req' = [req EXCEPT ![p] = [rq EXCEPT !.err = c.err]]
                /\ pc' = [pc EXCEPT ![p] = "called"]
           ELSE /\ req' = [req EXCEPT ![p] = [rq EXCEPT !.id = c.id, !.zero = t]]
                /\ pc' = [pc EXCEPT ![p] = "resetRead"]
    /\ NoStore
    /\ UNCHANGED <<now, backend, nextId, nreq, known>>

(* The handler returns, or Use has answered 500: the goroutine is free. *)
Finish(p) ==
    /\ pc[p] \in {"handler", "called", "failed"}
    /\ pc' = [pc EXCEPT ![p] = "idle"]
    /\ req' = [req EXCEPT ![p] = Fresh]
    /\ NoStore
    /\ UNCHANGED <<now, backend, nextId, nreq, known>>

----------------------------------------------------------------------------
(* The background goroutines and the clock. *)

NoSweep == [live |-> FALSE, reads |-> {}, dels |-> {}, stale |-> FALSE]

(* MemoryStore.expire: the ticker fires and run() makes one pass. *)
Expire ==
    /\ backend = "memory"
    /\ Effect("expire", MemExpire)
    /\ UNCHANGED <<now, backend, nextId, nreq, known, pc, req>>

(* FileStore.expire: the ticker fires; the transaction iterates the keys of
   its snapshot and calls txn.Delete on the expired ones.  When none is
   expired the transaction has written nothing: its Commit checks nothing
   and changes nothing, so the pass ends in this step.  A value that does
   not decode makes the closure return the error: the pass is given up. *)
FsExpire ==
    /\ backend = "file"
    /\ ~sweep.live
    /\ LET dels == IF \E key \in DOMAIN shelf : ~Decodes(shelf[key]) THEN {}
                   ELSE {key \in DOMAIN shelf : now > decGob(shelf[key]).Expiry}
       IN  sweep' = IF dels = {} THEN NoSweep
                    ELSE [live |-> TRUE, reads |-> DOMAIN shelf, dels |-> dels,
                          stale |-> FALSE]
    /\ UNCHANGED <<now, backend, shelf, heap, nextRef, nextId, nreq, known, pc, req, txn>>

(* FileStore.expire: the transaction commits, unless a key it read was
   written since it started: then Commit returns badger.ErrConflict, which
   is logged, and nothing is deleted. *)
FsExpireCommit ==
    /\ sweep.live
    /\ IF sweep.stale
       THEN UNCHANGED <<shelf, txn>>
       ELSE /\ shelf' = Drop(shelf, sweep.dels)
            /\ txn' = [q \in DOMAIN txn |-> Stale(txn[q], sweep.dels)]
    /\ sweep' = NoSweep
    /\ UNCHANGED <<now, backend, heap, nextRef, nextId, nreq, known, pc, req>>

Tick ==
    /\ now < MaxTime
    /\ now' = now + 1
    /\ UNCHANGED <<backend, shelf, heap, nextRef, nextId, nreq, known, pc, req, txn, sweep>>

----------------------------------------------------------------------------
(* New(store, expiry, idle) with either store, no request yet. *)

Init ==
    /\ now = 1
    /\ backend \in Backends
    /\ shelf = [i \in {} |-> NilSes]
    /\ heap = [i \in {} |-> EmptyMap]
    /\ nextRef = 1
    /\ nextId = 1
    /\ nreq = 0
    /\ known = {}
    /\ pc = [p \in Procs |-> "idle"]
    /\ req = [p \in Procs |-> Fresh]
    /\ txn = [p \in Procs |-> NoTxn]
    /\ sweep = NoSweep

Next ==
    \/ \E p \in Procs : \E c \in known \cup {NoId, WrongId} : Start(p, c)
    \/ \E p \in Procs : Validate(p)
    \/ \E p \in Procs : Touch(p)
    \/ \E p \in Procs : ResetRead(p)
    \/ \E p \in Procs : ResetCreate(p)
    \/ \E p \in Procs : ResetUpdate(p)
    \/ \E p \in Procs : NewRecord(p)
    \/ \E p \in Procs : PutCookie(p)
    \/ \E p \in Procs : Commit(p)
    \/ \E p \in Procs : Bare(p)
    \/ \E p \in Procs : \E k \in Keys : \E v \in Vals : Set(p, k, v)
    \/ \E p \in Procs : \E k \in Keys : Delete(p, k)
    \/ \E p \in Procs : \E t \in Toks : TokenSet(p, t)
    \/ \E p \in Procs : \E k \in Keys : Get(p, k)
    \/ \E p \in Procs : TokenGet(p)
    \/ \E p \in Procs : Remove(p)
    \/ \E p \in Procs : \E t \in ResetArgs : Reset(p, t)
    \/ \E p \in Procs : Finish(p)
    \/ Expire
    \/ FsExpire
    \/ FsExpireCommit
    \/ Tick

Spec == Init /\ [][Next]_vars

----------------------------------------------------------------------------
(* The Store on its own, driven as testStore drives it: one caller makes
   Create, Read, Update and Delete calls on a few identifiers while the
   clock and the store's sweep run.  req holds the last call, the error it
   returned and the caller's variable ses, which Read assigns and the other
   calls leave alone; nreq counts the calls. *)

MaxOps == 3

StoreProcs == {"t1"}
StoreIds == {1, 2}
Ttls == {0, 1, 2}
StoreFns ==
    {fnTouch} \cup {fnSet(k, v) : k \in Keys, v \in Vals}
        \cup {fnDelete(k) : k \in Keys} \cup {fnToken(t) : t \in Toks}

NoCall == [op |-> "", id |-> NoId, err |-> Nil, ses |-> NilSes]
Call(op, id, err, ses) == [op |-> op, id |-> id, err |-> err, ses |-> ses]

(* store.Create(id, ttl) *)
StCreate(c, id, ttl) ==
    /\ pc[c] = "idle"
    /\ nreq < MaxOps
    /\ nreq' = nreq + 1
    /\ Effect(c, storeCreate(id, ttl))
    /\ req' = [req EXCEPT ![c] = Call("Create", id, Nil, req[c].ses)]
    /\ UNCHANGED <<now, backend, nextId, known, pc>>

(* ses, err = store.Read(id) *)
StRead(c, id) ==
    /\ pc[c] = "idle"
    /\ nreq < MaxOps
    /\ nreq' = nreq + 1
    /\ LET r == storeRead(id)
       IN  req' = [req EXCEPT ![c] = Call("Read", id, r.err, r.ses)]
    /\ NoStore
    /\ UNCHANGED <<now, backend, nextId, known, pc>>

(* err = store.Update(id, fn): on the file store the call returns here only
   when the key is missing, else its transaction stays open. *)
StUpdate(c, id, fn) ==
    /\ pc[c] = "idle"
    /\ nreq < MaxOps
    /\ nreq' = nreq + 1
    /\ LET r == storeUpdate(id, fn)
       IN  /\ Effect(c, r)
           /\ pc' = [pc EXCEPT ![c] = IF r.txn.live THEN "update" ELSE "idle"]
           /\ req' = [req EXCEPT ![c] = Call("Update", id, r.err, req[c].ses)]
    /\ UNCHANGED <<now, backend, nextId, known>>

(* The commit that ends FileStore.Update. *)
StCommit(c) ==
    /\ pc[c] = "update"
    /\ txn[c].live
    /\ LET r == FsCommit(txn[c])
       IN  /\ Effect(c, r)
           /\ req' = [req EXCEPT ![c].err = r.err]
    /\ pc' = [pc EXCEPT ![c] = "idle"]
    /\ UNCHANGED <<now, backend, nextId, nreq, known>>

(* store.Delete(id) *)
StDelete(c, id) ==
    /\ pc[c] = "idle"
    /\ nreq < MaxOps
    /\ nreq' = nreq + 1
    /\ Effect(c, storeDelete(id))
    /\ req' = [req EXCEPT ![c] = Call("Delete", id, Nil, req[c].ses)]
    /\ UNCHANGED <<now, backend, nextId, known, pc>>

(* The caller writes to the Session that Read returned: ses.Data[k] = v.
   The write goes where the map of that Session lives. *)
StPoke(c, k, v) ==
    /\ pc[c] = "idle"
    /\ nreq < MaxOps
    /\ req[c].ses.Data.tag # "nil"
    /\ nreq' = nreq + 1
    /\ LET o == SetFn(req[c].ses, heap, k, v)
       IN  /\ heap' = o.heap
           /\ req' = [req EXCEPT ![c] = Call("Poke", req[c].id, Nil, o.ses)]
    /\ UNCHANGED <<now, backend, shelf, nextRef, nextId, known, pc, txn, sweep>>

(* NewMemoryStore(tic) / NewFileStore(dir, tic) on an empty directory. *)
StoreInit ==
    /\ now = 1
    /\ backend \in Backends
    /\ shelf = [i \in {} |-> NilSes]
    /\ heap = [i \in {} |-> EmptyMap]
    /\ nextRef = 1
    /\ nextId = 1
    /\ nreq = 0
    /\ known = {}
    /\ pc = [c \in StoreProcs |-> "idle"]
    /\ req = [c \in StoreProcs |-> NoCall]
    /\ txn = [c \in StoreProcs |-> NoTxn]
    /\ sweep = NoSweep

StoreNext ==
    \/ \E c \in StoreProcs : \E id \in StoreIds : \E ttl \in Ttls : StCreate(c, id, ttl)
    \/ \E c \in StoreProcs : \E id \in StoreIds : StRead(c, id)
    \/ \E c \in StoreProcs : \E id \in StoreIds : \E fn \in StoreFns : StUpdate(c, id, fn)
    \/ \E c \in StoreProcs : StCommit(c)
    \/ \E c \in StoreProcs : \E id \in StoreIds : StDelete(c, id)
    \/ \E c \in StoreProcs : \E k \in Keys : \E v \in Vals : StPoke(c, k, v)
    \/ Expire
    \/ FsExpire
    \/ FsExpireCommit
    \/ Tick

StoreSpec == StoreInit /\ [][StoreNext]_vars

----------------------------------------------------------------------------
(* Concurrent callers of Store.Update on one record.  The record is
   created with a time to live longer than the run, so it is there for every
   caller and the sweep finds nothing to delete; then each goroutine of Upds
   makes one call that adds a key of its own, named after the goroutine. *)

Upds == {"u1", "u2", "u3"}

(* store.Create(id, ttl) with an identifier from uuid.New() *)
UpCreate ==
    /\ known = {}
    /\ Effect("test", storeCreate(nextId, MaxTime))
    /\ known' = {nextId}
    /\ nextId' = nextId + 1
    /\ UNCHANGED <<now, backend, nreq, pc, req>>

(* go store.Update(id, func(ses) { ses.Data[u] = v }) *)
UpCall(u, id, v) ==
    /\ pc[u] = "idle"
    /\ LET r == storeUpdate(id, fnSet(u, v))
       IN  /\ Effect(u, r)
           /\ pc' = [pc EXCEPT ![u] = IF r.txn.live THEN "update" ELSE "done"]
           /\ req' = [req EXCEPT ![u] = Call("Update", id, r.err, NilSes)]
    /\ nreq' = nreq + 1
    /\ UNCHANGED <<now, backend, nextId, known>>

(* The commit that ends FileStore.Update: the call returns its error. *)
UpCommit(u) ==
    /\ pc[u] = "update"
    /\ txn[u].live
    /\ LET r == FsCommit(txn[u])
       IN  /\ Effect(u, r)
           /\ req' = [req EXCEPT ![u].err = r.err]
    /\ pc' = [pc EXCEPT ![u] = "done"]
    /\ UNCHANGED <<now, backend, nextId, nreq, known>>

UpdateInit ==
    /\ now = 1
    /\ backend \in Backends
    /\ shelf = [i \in {} |-> NilSes]
    /\ heap = [i \in {} |-> EmptyMap]
    /\ nextRef = 1
    /\ nextId = 1
    /\ nreq = 0
    /\ known = {}
    /\ pc = [u \in Upds |-> "idle"]
    /\ req = [u \in Upds |-> NoCall]
    /\ txn = [u \in Upds |-> NoTxn]
    /\ sweep = NoSweep

UpdateNext ==
    \/ UpCreate
    \/ \E u \in Upds : \E id \in known : \E v \in Vals : UpCall(u, id, v)
    \/ \E u \in Upds : UpCommit(u)
    \/ Tick

UpdateSpec == UpdateInit /\ [][UpdateNext]_vars

----------------------------------------------------------------------------
(* The record the store holds under an identifier, as the values a reader
   sees: the fields, with the contents of the Data map. *)

Plain(ses, hp) ==
    [Expiry |-> ses.Expiry, Tstamp |-> ses.Tstamp, Token |-> ses.Token,
     Data |-> Contents(ses.Data, hp)]

Held(sh, id) == IF backend = "memory" THEN sh[id] ELSE decGob(sh[id])

Record(sh, hp, id) == Plain(Held(sh, id), hp)

(* The record Create makes at the current time. *)
FreshRecord == [Expiry |-> now + expiry, Tstamp |-> now, Token |-> "", Data |-> EmptyMap]

(* Goroutine p is in register, on the path validate chose for val. *)
Registering(p, vals) == req[p].op = "register" /\ req[p].val \in vals

----------------------------------------------------------------------------
(* C1: validate(id) answers Invalid exactly when the store holds no record
   for id, Expired exactly when a record exists and now > Expiry, Idle
   exactly when a record exists, is not expired and now > Tstamp + idle,
   Valid in the remaining case; a record past both limits is Expired. *)
C1_ValidateClassifies ==
    [][\A p \in DOMAIN pc :
        (pc[p] = "validate" /\ pc'[p] # "validate") =>
            LET id == req[p].id
                found == id \in DOMAIN shelf
                late == found /\ now > Record(shelf, heap, id).Expiry
                quiet == found /\ now > Record(shelf, heap, id).Tstamp + idle
                v == req'[p].val
            IN  /\ (v = sesInvalid) <=> ~found
                /\ (v = sesExpired) <=> late
                /\ (v = sesIdle) <=> (found /\ ~late /\ quiet)
                /\ (v = sesPass) <=> (found /\ ~late /\ ~quiet)
                /\ (late /\ quiet) => (v = sesExpired)]_vars

(* A request was classified Expired while its record, still stored, is past
   the idle window as well. *)
C1_Witness ==
    \E p \in DOMAIN pc :
        /\ pc[p] = "create"
        /\ Registering(p, {sesExpired})
        /\ req[p].jar \in DOMAIN shelf
        /\ now > Record(shelf, heap, req[p].jar).Expiry
        /\ now > Record(shelf, heap, req[p].jar).Tstamp + idle

(* C2: register given an identifier whose record is Valid, with nothing in
   between, hands the same identifier to the handler, creates no record,
   draws no identifier, puts no cookie, sets the record's Tstamp to now and
   leaves its Expiry, Token and Data and every other record as they were. *)
C2_ValidTouchesInPlace ==
    [][\A p \in DOMAIN pc :
        (/\ pc[p] = "touch"
         /\ pc'[p] = "handler"
         /\ txn[p].live => decGob(txn[p].val).Tstamp = now) =>
            LET id == req[p].jar
            IN  /\ req'[p].ctx = id
                /\ req'[p].out = NoJar
                /\ nextId' = nextId
                /\ known' = known
                /\ DOMAIN shelf' = DOMAIN shelf
                /\ \A i \in DOMAIN shelf :
                       Record(shelf', heap', i) =
                           IF i = id
                           THEN [Record(shelf, heap, i) EXCEPT !.Tstamp = now]
                           ELSE Record(shelf, heap, i)]_vars

(* A Valid record that holds data was touched later than it was created. *)
C2_Witness ==
    \E p \in DOMAIN pc :
        /\ pc[p] = "handler"
        /\ Registering(p, {sesPass})
        /\ req[p].ctx \in DOMAIN shelf
        /\ LET r == Record(shelf, heap, req[p].ctx)
           IN  /\ r.Tstamp = now
               /\ r.Tstamp > r.Expiry - expiry
               /\ r.Data # EmptyMap

(* C3: register given no cookie, or an identifier the store has no record
   for, draws a new identifier different from the one presented; the store
   then holds under it a fresh record (no data, no token, Tstamp = now,
   Expiry = now + expiry); the new identifier goes out in the cookie and to
   the handler. *)
C3_FreshOnNoneOrInvalid ==
    [][\A p \in DOMAIN pc :
        /\ (pc[p] = "create" /\ pc'[p] = "cookie" /\ Registering(p, {NoVal, sesInvalid})) =>
               LET new == req'[p].id
               IN  /\ req[p].jar \notin DOMAIN shelf
                   /\ new # req[p].jar
                   /\ new \notin DOMAIN shelf
                   /\ new \notin known
                   /\ new \in DOMAIN shelf'
                   /\ Record(shelf', heap', new) = FreshRecord
        /\ (pc[p] = "cookie" /\ pc'[p] = "handler" /\ Registering(p, {NoVal, sesInvalid})) =>
               /\ req'[p].out.id = req[p].id
               /\ req'[p].ctx = req[p].id
               /\ req[p].id # req[p].jar
               /\ req[p].id \in known']_vars

(* A cookie the store knew nothing of was answered with a new identifier
   that has a record. *)
C3_Witness ==
    \E p \in DOMAIN pc :
        /\ pc[p] = "handler"
        /\ Registering(p, {sesInvalid})
        /\ req[p].out.id = req[p].ctx
        /\ req[p].ctx # req[p].jar
        /\ req[p].ctx \in DOMAIN shelf


(* The identifiers uuid.New() can have drawn: register draws at most one
   per request, and the one call the handler makes at most one more. *)
Ids == 1..(2 * MaxReqs)

(* A transition step has classified the record under i Expired. *)
FoundExpired(i) ==
    \E p \in DOMAIN pc : Registering(p, {sesExpired}) /\ req[p].jar = i

(* No handler has i for its session, and no transition step that was given
   i has found it Valid or Idle: nothing reads or writes the record under i. *)
Shut(i) ==
    \A p \in DOMAIN pc :
        /\ req[p].ctx # i
        /\ (req[p].op = "register" /\ req[p].jar = i) =>
               req[p].val \in {NoVal, sesExpired, sesInvalid}

(* C4: register given an identifier whose record is Expired does as for
   Invalid: the handler and the cookie get a new identifier whose record is
   fresh, with no data and no token; and from the moment a transition step
   has found the record Expired, no handler ever has the old identifier for
   its session and no transition step finds it Valid or Idle again. *)
C4_ExpiredIsGone ==
    /\ [](\A p \in DOMAIN pc :
            (pc[p] = "handler" /\ Registering(p, {sesExpired})) =>
                /\ req[p].ctx = req[p].id
                /\ req[p].ctx # req[p].jar
                /\ req[p].out.id = req[p].ctx
                /\ req[p].ctx \in DOMAIN shelf
                /\ LET rec == Record(shelf, heap, req[p].ctx)
                   IN  /\ rec.Data = EmptyMap
                       /\ rec.Token = ""
                       /\ rec.Expiry = rec.Tstamp + expiry)
    /\ \A i \in Ids : [](FoundExpired(i) => [](Shut(i)))

(* An Expired record with data, still in the store, was answered with a new
   identifier. *)
C4_Witness ==
    \E p \in DOMAIN pc :
        /\ pc[p] = "handler"
        /\ Registering(p, {sesExpired})
        /\ req[p].jar \in DOMAIN shelf
        /\ Record(shelf, heap, req[p].jar).Data # EmptyMap
        /\ req[p].ctx \in DOMAIN shelf
        /\ Record(shelf, heap, req[p].ctx).Data = EmptyMap

(* The identifier reset was called with: the cookie's in register, the
   context's in Reset. *)
Old(p) == IF req[p].op = "register" THEN req[p].jar ELSE req[p].ctx

(* C5: register given an identifier whose record is Idle renews it: the new
   identifier differs from the old one and goes out in the cookie and to the
   handler; the record stored under it has the keys and values of the old
   record, no token, and the Tstamp that reset read from the clock. *)
C5_IdleRenews ==
    [][\A p \in DOMAIN pc :
        /\ (pc[p] = "resetRead" /\ pc'[p] = "resetCreate" /\ Registering(p, {sesIdle})) =>
               Plain(req'[p].osd, heap') = Record(shelf, heap, req[p].jar)
        /\ (/\ pc[p] = "resetUpdate" /\ ~txn[p].live
            /\ (txn'[p].live \/ pc'[p] # "resetUpdate")
            /\ Registering(p, {sesIdle})) =>
               /\ req'[p].osd.Tstamp = now
               /\ req'[p].osd.Token = ""
               /\ Contents(req'[p].osd.Data, heap') = Contents(req[p].osd.Data, heap)
        /\ (pc[p] = "resetUpdate" /\ pc'[p] = "cookie" /\ Registering(p, {sesIdle})) =>
               LET new == req[p].id
                   rec == Record(shelf', heap', new)
               IN  /\ new # req[p].jar
                   /\ new \notin known
                   /\ rec.Data = Contents(req[p].osd.Data, heap)
                   /\ req[p].jar \in DOMAIN shelf =>
                          rec.Data = Record(shelf, heap, req[p].jar).Data
                   /\ rec.Token = ""
                   /\ rec.Tstamp = req'[p].osd.Tstamp
                   /\ backend = "memory" => rec.Tstamp = now
        /\ (pc[p] = "cookie" /\ pc'[p] = "handler" /\ Registering(p, {sesIdle})) =>
               /\ req'[p].out.id = req[p].id
               /\ req'[p].ctx = req[p].id
               /\ req[p].id # req[p].jar]_vars

(* An Idle record that held data was renewed: the new record holds the data
   and was touched later than the old one. *)
C5_Witness ==
    \E p \in DOMAIN pc :
        /\ pc[p] = "handler"
        /\ Registering(p, {sesIdle})
        /\ req[p].ctx \in DOMAIN shelf
        /\ req[p].jar \in DOMAIN shelf
        /\ req[p].ctx # req[p].jar
        /\ Record(shelf, heap, req[p].ctx).Data # EmptyMap
        /\ Record(shelf, heap, req[p].ctx).Data = Record(shelf, heap, req[p].jar).Data
        /\ Record(shelf, heap, req[p].ctx).Tstamp > Record(shelf, heap, req[p].jar).Tstamp

(* C6, as stated: after an Idle renewal or a Reset made at time now, the
   record under the new identifier has Expiry = now + expiry. *)
C6_ExpiryRecomputed ==
    [][\A p \in DOMAIN pc :
        (/\ pc[p] = "resetUpdate"
         /\ pc'[p] = "cookie"
         /\ Record(shelf, heap, req[p].id).Expiry = now + expiry) =>
            Record(shelf', heap', req[p].id).Expiry = now + expiry]_vars

(* C6, amended: after an Idle renewal or a Reset the record under the new
   identifier has the Expiry of the record it replaces: reset reads the old
   record and assigns it whole to the new one, so the expiry that Create
   computed is overwritten and the session's absolute expiry is not moved. *)
C6_ExpiryCarriedOver ==
    [][\A p \in DOMAIN pc :
        /\ (pc[p] = "resetRead" /\ pc'[p] = "resetCreate") =>
               req'[p].osd.Expiry = Record(shelf, heap, Old(p)).Expiry
        /\ (pc[p] = "resetUpdate" /\ pc'[p] = "cookie") =>
               /\ Record(shelf', heap', req[p].id).Expiry = req[p].osd.Expiry
               /\ Old(p) \in DOMAIN shelf =>
                      Record(shelf', heap', req[p].id).Expiry =
                          Record(shelf, heap, Old(p)).Expiry]_vars

(* A renewal ended with the new record expiring when the old one does,
   earlier than expiry after the renewal. *)
C6_Witness ==
    \E p \in DOMAIN pc :
        /\ pc[p] = "cookie"
        /\ req[p].op \in {"register", "Reset"}
        /\ req[p].osd # NilSes
        /\ req[p].id \in DOMAIN shelf
        /\ Old(p) \in DOMAIN shelf
        /\ Record(shelf, heap, req[p].id).Expiry = Record(shelf, heap, Old(p)).Expiry
        /\ Record(shelf, heap, req[p].id).Expiry < now + expiry

(* C7, as stated: once an Idle renewal has completed the store holds no
   record under the old identifier, so validate answers Invalid for it. *)
C7_OldIdDiscarded ==
    \A p \in DOMAIN pc :
        (pc[p] \in {"handler", "called"} /\ Registering(p, {sesIdle})) =>
            /\ req[p].jar \notin DOMAIN shelf
            /\ validate(req[p].jar).val = sesInvalid

(* C8, as stated: when every one of the concurrent Update calls on the
   record has returned, the record holds the key of each of them. *)
C8_NoLostUpdate ==
    (known # {} /\ \A u \in DOMAIN pc : pc[u] = "done") =>
        \A id \in known : \A u \in DOMAIN pc :
            /\ id \in DOMAIN shelf
            /\ u \in DOMAIN Record(shelf, heap, id).Data

(* C9, as stated: Read(id) and Update(id, f) of an identifier the store has
   no record for return ErrSessionNoRecord, on either store, and leave the
   store as it was: f is not run and no record appears. *)
C9_NoRecord ==
    [][\A c \in DOMAIN pc :
        (/\ nreq' = nreq + 1
         /\ req'[c].op \in {"Read", "Update"}
         /\ req'[c].id \notin DOMAIN shelf) =>
            /\ req'[c].err = ErrSessionNoRecord
            /\ ~txn'[c].live
            /\ shelf' = shelf
            /\ heap' = heap]_vars

(* C10: after Create(id, ttl) with ttl > 0 at time now, whether or not id
   had a record, Read(id) finds a record with no data, no token, Tstamp =
   now and Expiry = now + ttl: nothing of an earlier record is left. *)
C10_CreateIsFresh ==
    [][\A c \in DOMAIN pc : \A ttl \in Ttls \ {0} :
        (/\ nreq' = nreq + 1
         /\ req'[c].op = "Create"
         /\ storeCreate(req'[c].id, ttl).shelf = shelf') =>
            LET id == req'[c].id
            IN  /\ id \in DOMAIN shelf'
                /\ Record(shelf', heap', id) =
                       [Expiry |-> now + ttl, Tstamp |-> now, Token |-> "",
                        Data |-> EmptyMap]]_vars

(* On the memory store, with the clock still at 1: a record was created,
   a key was set in it, and Create was called on it again: the record now
   holds no data. *)
C10_Witness ==
    \E c \in DOMAIN pc :
        /\ nreq = 3
        /\ now = 1
        /\ backend = "memory"
        /\ req[c].op = "Create"
        /\ DOMAIN shelf = {req[c].id}
        /\ nextRef = 3
        /\ heap[1] # EmptyMap
        /\ Record(shelf, heap, req[c].id).Data = EmptyMap

----------------------------------------------------------------------------
(* A handler that keeps calling the Manager: one goroutine serves requests
   whose handler makes any number of Set, Get and Delete calls over two keys
   and two values. *)

CrudKeys == {"k1", "k2"}
CrudVals == {"v1", "v2"}

(* The handler goes on after a call returned. *)
Again(p) ==
    /\ pc[p] = "called"
    /\ pc' = [pc EXCEPT ![p] = "handler"]
    /\ NoStore
    /\ UNCHANGED <<now, backend, nextId, nreq, known, req>>

CrudInit == Init

CrudNext ==
    \/ \E p \in Procs : \E c \in known \cup {NoId} : Start(p, c)
    \/ \E p \in Procs : Validate(p)
    \/ \E p \in Procs : Touch(p)
    \/ \E p \in Procs : ResetRead(p)
    \/ \E p \in Procs : ResetCreate(p)
    \/ \E p \in Procs : ResetUpdate(p)
    \/ \E p \in Procs : NewRecord(p)
    \/ \E p \in Procs : PutCookie(p)
    \/ \E p \in Procs : Commit(p)
    \/ \E p \in Procs : \E k \in CrudKeys : \E v \in CrudVals : Set(p, k, v)
    \/ \E p \in Procs : \E k \in CrudKeys : Delete(p, k)
    \/ \E p \in Procs : \E k \in CrudKeys : Get(p, k)
    \/ \E p \in Procs : Again(p)
    \/ \E p \in Procs : Finish(p)
    \/ Expire
    \/ FsExpire
    \/ FsExpireCommit
    \/ Tick

CrudSpec == CrudInit /\ [][CrudNext]_vars

(* The step in which p's call of op returns without error. *)
Returned(p, op) ==
    /\ pc[p] \in {"handler", "update"}
    /\ pc'[p] = "called"
    /\ req'[p].op = op
    /\ req'[p].err = Nil

(* C11: when Set(k, v) has returned, Read and Get of the identifier yield v
   under k and every other key reads as it did before; when Delete(k) has
   returned, Get(k) yields ErrSessionKeyInvalid, every other key reads as it
   did before and the record is still stored. *)
C11_RoundTrip ==
    [][\A p \in DOMAIN pc : \A i \in Ids : \A k \in CrudKeys :
        LET mine == req'[p].ctx = i /\ req'[p].key = k
        IN  /\ (Returned(p, "Set") /\ mine) =>
                  /\ i \in DOMAIN shelf'
                  /\ (storeRead(i).err)' = Nil
                  /\ (Contents(storeRead(i).ses.Data, heap))'
                        = MapSet(Contents(storeRead(i).ses.Data, heap), k, req'[p].arg)
                  /\ (getData(i, k))' = [res |-> req'[p].arg, err |-> Nil]
                  /\ \A j \in CrudKeys \ {k} : (getData(i, j))' = getData(i, j)
            /\ (Returned(p, "Delete") /\ mine) =>
                  /\ i \in DOMAIN shelf'
                  /\ (storeRead(i).err)' = Nil
                  /\ (getData(i, k))' = [res |-> "", err |-> ErrSessionKeyInvalid]
                  /\ \A j \in CrudKeys \ {k} : (getData(i, j))' = getData(i, j)]_vars

(* Delete("k1") has returned on a record that held both keys, and Get still
   finds the value Set stored under "k2". *)
C11_Witness ==
    \E p \in DOMAIN pc :
        /\ pc[p] = "called"
        /\ req[p].op = "Delete"
        /\ req[p].err = Nil
        /\ req[p].key = "k1"
        /\ req[p].ctx \in DOMAIN shelf
        /\ getData(req[p].ctx, "k1").err = ErrSessionKeyInvalid
        /\ getData(req[p].ctx, "k2") = [res |-> "v2", err |-> Nil]

(* C12: a sweep pass removes every record whose Expiry has passed, so that
   Read of its identifier yields ErrSessionNoRecord, and leaves every other
   record as it is.  On the memory store the pass is MemoryStore.expire's
   run(); on the file store it ends when the transaction of
   FileStore.expire commits. *)
C12_SweepRemovesExpired ==
    [][/\ backend = "memory" =>
            LET r == MemExpire
            IN  /\ r.heap = heap
                /\ \A i \in DOMAIN shelf :
                      IF now > shelf[i].Expiry
                      THEN i \notin DOMAIN r.shelf
                      ELSE i \in DOMAIN r.shelf /\ r.shelf[i] = shelf[i]
       /\ (sweep.live /\ ~sweep'.live) =>
            /\ heap' = heap
            /\ \A i \in DOMAIN shelf :
                  IF i \in sweep.dels /\ now > decGob(shelf[i]).Expiry
                  THEN i \notin DOMAIN shelf' /\ (storeRead(i).err)' = ErrSessionNoRecord
                  ELSE i \in sweep.dels \/ (i \in DOMAIN shelf' /\ shelf'[i] = shelf[i])]_vars

(* The step in which p's handler calls one of the data operations. *)
Calls(p) ==
    /\ pc[p] = "handler"
    /\ pc'[p] \notin {"handler", "idle"}
    /\ req'[p].op \in {"Set", "Get", "Delete", "Token", "Remove"}

(* C13: Set, Get, Delete, Token and Remove called with a request whose
   context holds no identifier return ErrSessionNilContext in that step,
   call no store operation, draw no identifier, put no cookie and leave the
   store as it is. *)
C13_NilContext ==
    [][\A p \in DOMAIN pc :
        (Calls(p) /\ req[p].ctx = NoId) =>
            /\ pc'[p] = "called"
            /\ req'[p].err = ErrSessionNilContext
            /\ req'[p].res = ""
            /\ req'[p].out = req[p].out
            /\ req'[p].ctx = NoId
            /\ UNCHANGED <<shelf, heap, nextRef, txn, sweep, nextId, known>>]_vars

(* Remove has returned ErrSessionNilContext to a handler Use does not wrap,
   while the store holds a record. *)
C13_Witness ==
    \E p \in DOMAIN pc :
        /\ pc[p] = "called"
        /\ req[p].op = "Remove"
        /\ req[p].ctx = NoId
        /\ req[p].err = ErrSessionNilContext
        /\ req[p].out = NoJar
        /\ DOMAIN shelf # {}

(* C14: Get(k) on an established identifier returns ErrSessionKeyInvalid
   exactly when the record is stored and does not hold k, the value when it
   holds k, and ErrSessionNoRecord when no record is stored; Set, Delete and
   Token on an identifier whose record is no longer stored return
   ErrSessionNoRecord in that step and store nothing. *)
C14_KeyOrRecord ==
    [][\A p \in DOMAIN pc : \A i \in Ids :
        (Calls(p) /\ req[p].ctx = i) =>
            /\ (req'[p].op = "Get" /\ i \in DOMAIN shelf) =>
                   LET d == Record(shelf, heap, i).Data
                       k == req'[p].key
                   IN  IF k \in DOMAIN d
                       THEN req'[p].err = Nil /\ req'[p].res = d[k]
                       ELSE req'[p].err = ErrSessionKeyInvalid /\ req'[p].res = ""
            /\ (req'[p].op = "Get" /\ i \notin DOMAIN shelf) =>
                   req'[p].err = ErrSessionNoRecord /\ req'[p].res = ""
            /\ (req'[p].op \in {"Set", "Delete", "Token"} /\ i \notin DOMAIN shelf) =>
                   /\ pc'[p] = "called"
                   /\ req'[p].err = ErrSessionNoRecord
                   /\ shelf' = shelf
                   /\ heap' = heap]_vars

(* C15: when the record validate found Valid or Idle is no longer stored at
   the moment register makes its next store call (the Update that touches
   Tstamp, or reset's Read), register returns ErrSessionNoRecord: the handler
   is not called, the context gets no identifier, no cookie is put and
   nothing is stored. *)
C15_VanishedSurfaces ==
    [][\A p \in DOMAIN pc :
        (/\ Registering(p, {sesPass, sesIdle})
         /\ pc[p] \in {"touch", "resetRead"}
         /\ ~txn[p].live
         /\ req[p].id \notin DOMAIN shelf
         /\ (pc'[p] # pc[p] \/ txn'[p].live)) =>
            /\ pc'[p] = "failed"
            /\ req'[p].err = ErrSessionNoRecord
            /\ req'[p].ctx = NoId
            /\ req'[p].out = NoJar
            /\ shelf' = shelf
            /\ known' = known]_vars

(* C16: Remove with an identifier in the context deletes the record stored
   under it; its Create stores a fresh empty record under an identifier
   never used before; its putCookie sends that identifier; in the state in
   which Remove returns, Read of the old identifier yields
   ErrSessionNoRecord and the record under the new identifier holds no data
   and no token. *)
C16_RemoveRenews ==
    [][\A p \in DOMAIN pc : \A i \in Ids :
        /\ (Calls(p) /\ req'[p].op = "Remove" /\ req[p].ctx = i) =>
               /\ pc'[p] = "create"
               /\ i \notin DOMAIN shelf'
               /\ (storeRead(i).err)' = ErrSessionNoRecord
        /\ (pc[p] = "create" /\ req[p].op = "Remove" /\ req[p].ctx = i /\ pc'[p] # "create") =>
               /\ pc'[p] = "cookie"
               /\ req'[p].id = nextId
               /\ nextId # i
               /\ nextId \notin DOMAIN shelf \cup known
               /\ DOMAIN shelf' = DOMAIN shelf \cup {nextId}
               /\ Record(shelf', heap', nextId) = FreshRecord
               /\ i \notin DOMAIN shelf'
        /\ (pc[p] = "cookie" /\ req[p].op = "Remove" /\ req[p].ctx = i /\ pc'[p] # "cookie") =>
               /\ pc'[p] = "called"
               /\ req'[p].err = Nil
               /\ req'[p].out = putCookie(req[p].id)
               /\ req[p].id # i
               /\ (storeRead(i).err)' = ErrSessionNoRecord
               /\ req[p].id \in DOMAIN shelf' =>
                      /\ Record(shelf', heap', req[p].id).Data = EmptyMap
                      /\ Record(shelf', heap', req[p].id).Token = ""]_vars

(* Remove has returned: the old identifier, which came in with the cookie,
   reads ErrSessionNoRecord and the cookie carries a new
   identifier whose record is empty. *)
C16_Witness ==
    \E p \in DOMAIN pc :
        /\ pc[p] = "called"
        /\ req[p].op = "Remove"
        /\ req[p].err = Nil
        /\ req[p].jar = req[p].ctx
        /\ req[p].ctx \in known
        /\ storeRead(req[p].ctx).err = ErrSessionNoRecord
        /\ req[p].out.id \in DOMAIN shelf
        /\ req[p].out.id # req[p].ctx
        /\ Record(shelf, heap, req[p].out.id).Data = EmptyMap

(* C17: the Session Read returned is the caller's own: a write of the
   caller to its Data leaves every stored record as it was, a later call or
   sweep leaves the returned Session as it was, and the stored records
   change only in a Create, Update or Delete or in a sweep. *)
C17_ReadCopies ==
    [][\A c \in DOMAIN pc :
        /\ (req'[c].op = "Poke" /\ nreq' = nreq + 1) =>
               /\ DOMAIN shelf' = DOMAIN shelf
               /\ \A i \in DOMAIN shelf : Record(shelf', heap', i) = Record(shelf, heap, i)
        /\ (req'[c].op \in {"Create", "Update", "Delete"} \/ req' = req) =>
               Plain(req'[c].ses, heap') = Plain(req[c].ses, heap)
        /\ (\/ DOMAIN shelf' # DOMAIN shelf
            \/ \E i \in DOMAIN shelf : Record(shelf', heap', i) # Record(shelf, heap, i)) =>
               \/ req'[c].op \in {"Create", "Update", "Delete"}
               \/ req' = req /\ pc' = pc]_vars

----------------------------------------------------------------------------
(* Requests served at the same time.  A first request, at time 1, has
   created the session under identifier 1 and its response has delivered the
   cookie; from there two goroutines of Use serve the requests that arrive
   with a cookie the client holds, and their steps interleave with each
   other, with the sweep and with the clock.  nreq counts the requests that
   arrive from here on. *)

ConcProcs == {"r1", "r2"}

FirstSession(d) == [Expiry |-> 1 + expiry, Tstamp |-> 1, Token |-> "", Data |-> d]

SessionInit(P) ==
    /\ now = 1
    /\ backend \in Backends
    /\ heap = IF backend = "memory" THEN [r \in {1} |-> EmptyMap] ELSE [r \in {} |-> EmptyMap]
    /\ shelf = IF backend = "memory"
               THEN [i \in {1} |-> FirstSession(MapRef(1))]
               ELSE [i \in {1} |-> encGob(FirstSession(MapVal(EmptyMap)), heap)]
    /\ nextRef = IF backend = "memory" THEN 2 ELSE 1
    /\ nextId = 2
    /\ nreq = 0
    /\ known = {1}
    /\ pc = [p \in P |-> "idle"]
    /\ req = [p \in P |-> Fresh]
    /\ txn = [p \in P |-> NoTxn]
    /\ sweep = NoSweep

ConcInit == SessionInit(ConcProcs)

ConcNext ==
    \/ \E p \in ConcProcs : \E c \in known : Start(p, c)
    \/ \E p \in ConcProcs : Validate(p)
    \/ \E p \in ConcProcs : Touch(p)
    \/ \E p \in ConcProcs : ResetRead(p)
    \/ \E p \in ConcProcs : ResetCreate(p)
    \/ \E p \in ConcProcs : ResetUpdate(p)
    \/ \E p \in ConcProcs : NewRecord(p)
    \/ \E p \in ConcProcs : PutCookie(p)
    \/ \E p \in ConcProcs : Commit(p)
    \/ \E p \in ConcProcs : \E k \in Keys : \E v \in Vals : Set(p, k, v)
    \/ \E p \in ConcProcs : \E t \in Toks : TokenSet(p, t)
    \/ \E p \in ConcProcs : Remove(p)
    \/ \E p \in ConcProcs : \E t \in ResetArgs : Reset(p, t)
    \/ \E p \in ConcProcs : Finish(p)
    \/ Expire
    \/ FsExpire
    \/ FsExpireCommit
    \/ Tick

ConcSpec == ConcInit /\ [][ConcNext]_vars

(* C18 as stated: the Tstamp stored under an identifier never decreases
   from one state to the next while the record is stored. *)
C18_TstampMonotone ==
    [][\A i \in DOMAIN shelf \cap DOMAIN shelf' :
          Record(shelf', heap', i).Tstamp >= Record(shelf, heap, i).Tstamp]_vars

(* C18, amended: the Tstamp stored under an identifier that has gone out in
   a cookie never decreases from one state to the next while the record is
   stored, whatever the two goroutines, the sweep and the clock do. *)
C18_DeliveredTstampMonotone ==
    [][\A i \in known \cap DOMAIN shelf \cap DOMAIN shelf' :
          Record(shelf', heap', i).Tstamp >= Record(shelf, heap, i).Tstamp]_vars

(* Two requests of one session are being served at once and its record has
   been touched after the time it was created. *)
C18_Witness ==
    \E i \in known \cap DOMAIN shelf :
        /\ req["r1"].ctx = i
        /\ req["r2"].ctx = i
        /\ pc["r1"] = "handler"
        /\ pc["r2"] = "handler"
        /\ Record(shelf, heap, i).Tstamp = now
        /\ now > 1

(* The record under i is the new record a reset of p is about to fill. *)
Renewing(p, i) == pc[p] = "resetUpdate" /\ req[p].id = i

(* C19: no step changes the Expiry of a stored record, except the Update of
   reset that fills the record it has just created: the touch of register,
   Set, Get, Delete and Token leave Expiry as it is. *)
C19_ExpiryFixed ==
    [][\A i \in DOMAIN shelf \cap DOMAIN shelf' :
          (\A p \in DOMAIN pc : ~Renewing(p, i)) =>
              Record(shelf', heap', i).Expiry = Record(shelf, heap, i).Expiry]_vars

(* A handler's call of Set has returned on a session that was given a
   token in an earlier request and touched in this one, later than it was
   created: its Expiry is still the one Create computed. *)
C19_Witness ==
    \E p \in DOMAIN pc :
        /\ pc[p] = "called"
        /\ req[p].op = "Set"
        /\ req[p].err = Nil
        /\ req[p].val = sesPass
        /\ req[p].ctx \in DOMAIN shelf
        /\ Record(shelf, heap, req[p].ctx).Token # ""
        /\ Record(shelf, heap, req[p].ctx).Tstamp = 1 + expiry
        /\ Record(shelf, heap, req[p].ctx).Expiry = 1 + expiry

----------------------------------------------------------------------------
(* The life of one session: the session of identifier 1 exists, created at
   time 1, and one goroutine serves the requests that follow, one after
   another. *)

SeqInit == SessionInit(Procs)

SeqNext ==
    \/ \E p \in Procs : \E c \in known : Start(p, c)
    \/ \E p \in Procs : Validate(p)
    \/ \E p \in Procs : Touch(p)
    \/ \E p \in Procs : ResetRead(p)
    \/ \E p \in Procs : ResetCreate(p)
    \/ \E p \in Procs : ResetUpdate(p)
    \/ \E p \in Procs : NewRecord(p)
    \/ \E p \in Procs : PutCookie(p)
    \/ \E p \in Procs : Commit(p)
    \/ \E p \in Procs : \E k \in Keys : \E v \in Vals : Set(p, k, v)
    \/ \E p \in Procs : \E t \in Toks : TokenSet(p, t)
    \/ \E p \in Procs : \E t \in ResetArgs : Reset(p, t)
    \/ \E p \in Procs : Finish(p)
    \/ Expire
    \/ FsExpire
    \/ FsExpireCommit
    \/ Tick

SeqSpec == SeqInit /\ [][SeqNext]_vars

SeqIds == 2..(1 + 2 * MaxReqs)
Deadlines == (1 + expiry)..(MaxTime + expiry)

(* reset or Create has stored the record under j, with Expiry d, and the
   cookie that carries j is about to be put. *)
Issued(j, d) ==
    /\ j \in DOMAIN shelf
    /\ Record(shelf, heap, j).Expiry = d
    /\ \E p \in DOMAIN pc : pc[p] = "cookie" /\ req[p].id = j

(* p has renewed the session of j: reset has filled the record under
   req[p].id from the record under j. *)
Derives(p, j) ==
    /\ pc[p] = "cookie"
    /\ Old(p) = j
    /\ \/ Registering(p, {sesIdle})
       \/ req[p].op = "Reset"

(* d is the deadline of the session of j: the record keeps Expiry d, past d
   validate finds it Expired (Invalid once the sweep has removed it), and a
   record renewed from it has Expiry d too. *)
Keeps(j, d) ==
    /\ j \in DOMAIN shelf => Record(shelf, heap, j).Expiry = d
    /\ now > d =>
          validate(j) = [val |-> IF j \in DOMAIN shelf THEN sesExpired ELSE sesInvalid,
                         err |-> Nil]
    /\ \A p \in DOMAIN pc :
          (Derives(p, j) /\ req[p].id \in DOMAIN shelf) =>
              Record(shelf, heap, req[p].id).Expiry = d

(* The record register made after validate found the cookie's record
   Expired or Invalid is a new one: empty, and expiring expiry after it was
   created. *)
Reissued(p) ==
    (/\ pc[p] = "cookie"
     /\ Registering(p, {sesExpired, sesInvalid})
     /\ req[p].id \in DOMAIN shelf) =>
        LET n == Record(shelf, heap, req[p].id)
        IN  /\ req[p].id # req[p].jar
            /\ n.Data = EmptyMap
            /\ n.Token = ""
            /\ n.Expiry = n.Tstamp + expiry

(* C20: the session created at time 1 has the deadline 1 + expiry, and a
   record issued with Expiry d has the deadline d, for ever: touches, data
   operations and renewals leave it, a record renewed from it inherits it,
   and every transition step later than the deadline that is given the
   identifier starts a new, empty session. *)
C20_AbsoluteExpiry ==
    /\ [](Keeps(1, 1 + expiry))
    /\ \A j \in SeqIds : \A d \in Deadlines : [](Issued(j, d) => [](Keeps(j, d)))
    /\ [](\A p \in DOMAIN pc : Reissued(p))

(* The session of time 1 was renewed when Idle, under identifier 2, which
   kept the deadline; a request presents 2 after the deadline and its handler
   runs with a new, empty session. *)
C20_Witness ==
    \E p \in DOMAIN pc :
        /\ pc[p] = "handler"
        /\ Registering(p, {sesExpired})
        /\ req[p].jar = 2
        /\ {1, 2, req[p].ctx} \subseteq DOMAIN shelf
        /\ req[p].ctx \notin {1, 2}
        /\ Record(shelf, heap, 1).Tstamp = 1
        /\ Record(shelf, heap, 2).Tstamp > 1
        /\ Record(shelf, heap, 2).Expiry = 1 + expiry
        /\ now > 1 + expiry
        /\ Record(shelf, heap, req[p].ctx).Data = EmptyMap
        /\ Record(shelf, heap, req[p].ctx).Expiry = now + expiry

----------------------------------------------------------------------------
(* C21: Delete(id) returns no error whether or not id is stored; it leaves
   the records under the other identifiers, and the whole store when id is
   not stored, as they were; Delete(id) once more, right after it, returns no
   error and leaves the store as the first call left it. *)
C21_DeleteIdempotent ==
    [][\A c \in DOMAIN pc : \A i \in StoreIds :
        (/\ nreq' = nreq + 1
         /\ req'[c].op = "Delete"
         /\ req'[c].id = i) =>
            /\ req'[c].err = storeDelete(i).err
            /\ req'[c].err = Nil
            /\ shelf' = Drop(shelf, {i})
            /\ heap' = heap
            /\ i \notin DOMAIN shelf => shelf' = shelf
            /\ (storeDelete(i).err)' = Nil
            /\ (storeDelete(i).shelf)' = shelf'
            /\ (storeDelete(i).heap)' = heap']_vars

(* Delete(1) has returned nil on a store that holds a record under 2 only. *)
C21_Witness ==
    \E c \in DOMAIN pc :
        /\ req[c].op = "Delete"
        /\ req[c].id = 1
        /\ req[c].err = Nil
        /\ nreq = 2
        /\ DOMAIN shelf = {2}

----------------------------------------------------------------------------
(* MemoryStore under its sync.RWMutex.  Two goroutines call Create, Read,
   Update and Delete while the goroutine of expire makes its passes.  A call
   blocks in s.Lock() / s.RLock() (pc "lock"), runs its body holding the
   lock (pc "body"), and the deferred Unlock runs as it returns (pc
   "unlock").  The closure *ses = *osd writes the four fields of the Session
   one after another.  Which waiting goroutine gets the lock next is left
   open.  The store starts with two records: 1, which expires at 1 + expiry
   and has a token, and 2, which was created with ttl 0. *)

LockProcs == {"g1", "g2"}
LockIds == {1, 2}
Fields == <<"Expiry", "Tstamp", "Token", "Data">>
LockTtls == {0, expiry}

(* req[p]: the call, its error, the caller's variable ses, the record the
   closure found when it started (pre) and the fields it has still to write. *)
NoLockCall ==
    [op |-> "", id |-> NoId, fn |-> fnTouch, ttl |-> 0, err |-> Nil,
     ses |-> NilSes, pre |-> NilSes, left |-> <<>>]

Asleep == [at |-> "ticker", keys |-> {}]

Holds(p) == pc[p] \in {"body", "unlock"}
Writes(p) == Holds(p) /\ req[p].op # "Read"
Sweeping == sweep.at = "range"

(* RLock that never waits. *)
CanRLock_Always(p) == TRUE

(* s.RLock() returns when no writer holds the lock. *)
CanRLock(p) == ~Sweeping /\ \A q \in DOMAIN pc : ~Writes(q)

(* Lock that also gives way to every goroutine waiting for the lock. *)
CanLock_GivesWay(p) == ~Sweeping /\ \A q \in DOMAIN pc \ {p} : pc[q] = "idle"

(* s.Lock() returns when nobody holds the lock. *)
CanLock(p) == ~Sweeping /\ \A q \in DOMAIN pc \ {p} : ~Holds(q)

LkCall(p, op, id, fn, ttl) ==
    /\ pc[p] = "idle"
    /\ nreq < MaxOps
    /\ nreq' = nreq + 1
    /\ pc' = [pc EXCEPT ![p] = "lock"]
    /\ req' = [req EXCEPT ![p] = [NoLockCall EXCEPT !.op = op, !.id = id, !.fn = fn,
                                                    !.ttl = ttl, !.ses = req[p].ses]]
    /\ UNCHANGED <<now, backend, shelf, heap, nextRef, nextId, known, txn, sweep>>

(* store.Create(id, ttl) is called *)
LkCreate(p, id, ttl) == LkCall(p, "Create", id, fnTouch, ttl)

(* store.Read(id) is called *)
LkRead(p, id) == LkCall(p, "Read", id, fnTouch, 0)

(* store.Update(id, fn) is called with the closure of the touch or of Token *)
LkUpdate(p, id, fn) == LkCall(p, "Update", id, fn, 0)

(* store.Update(id, func(ses) { *ses = *osd }) is called, osd being the
   Session the caller read before, as in reset *)
LkAssign(p, id) ==
    /\ req[p].ses # NilSes
    /\ LkCall(p, "Update", id, fnAssign(req[p].ses), 0)

(* store.Delete(id) is called *)
LkDelete(p, id) == LkCall(p, "Delete", id, fnTouch, 0)

(* s.Lock() returns in Create, Update or Delete *)
Lock(p) ==
    /\ pc[p] = "lock"
    /\ req[p].op # "Read"
    /\ CanLock(p)
    /\ pc' = [pc EXCEPT ![p] = "body"]
    /\ req' = [req EXCEPT
                 ![p].pre = IF req[p].id \in DOMAIN shelf THEN shelf[req[p].id] ELSE NilSes,
                 ![p].left = IF req[p].fn.op = "assign" /\ req[p].id \in DOMAIN shelf
                             THEN Fields ELSE <<>>]
    /\ UNCHANGED <<now, backend, shelf, heap, nextRef, nextId, nreq, known, txn, sweep>>

(* s.RLock() returns in Read *)
RLock(p) ==
    /\ pc[p] = "lock"
    /\ req[p].op = "Read"
    /\ CanRLock(p)
    /\ pc' = [pc EXCEPT ![p] = "body"]
    /\ UNCHANGED <<now, backend, shelf, heap, nextRef, nextId, nreq, known, req, txn, sweep>>

(* The body of Create, Read, Delete, or of Update with a closure that
   writes one field or finds no record. *)
Body(p) ==
    /\ pc[p] = "body"
    /\ req[p].left = <<>>
    /\ LET c == req[p]
           r == CASE c.op = "Create" -> MemCreate(c.id, c.ttl)
                  [] c.op = "Read" -> MemRead(c.id)
                  [] c.op = "Delete" -> MemDelete(c.id)
                  [] OTHER -> MemUpdate(c.id, c.fn)
       IN  /\ shelf' = r.shelf
           /\ heap' = r.heap
           /\ nextRef' = r.nextRef
           /\ req' = [req EXCEPT ![p].err = r.err,
                                 ![p].ses = IF c.op = "Read" THEN r.ses ELSE @]
    /\ pc' = [pc EXCEPT ![p] = "unlock"]
    /\ UNCHANGED <<now, backend, nextId, nreq, known, txn, sweep>>

(* *ses = *osd, one field at a time *)
AssignField(p) ==
    /\ pc[p] = "body"
    /\ req[p].left # <<>>
    /\ LET f == Head(req[p].left)
       IN  shelf' = [shelf EXCEPT ![req[p].id][f] = req[p].fn.osd[f]]
    /\ req' = [req EXCEPT ![p].left = Tail(@)]
    /\ pc' = [pc EXCEPT ![p] = IF Len(req[p].left) = 1 THEN "unlock" ELSE "body"]
    /\ UNCHANGED <<now, backend, heap, nextRef, nextId, nreq, known, txn, sweep>>

(* defer s.Unlock() / s.RUnlock(), and the call returns; the caller keeps
   the Session a Read gave it. *)
Unlock(p) ==
    /\ pc[p] = "unlock"
    /\ pc' = [pc EXCEPT ![p] = "idle"]
    /\ req' = [req EXCEPT ![p] = [NoLockCall EXCEPT !.ses = req[p].ses]]
    /\ UNCHANGED <<now, backend, shelf, heap, nextRef, nextId, nreq, known, txn, sweep>>

(* expire: the ticker fires and run() calls s.Lock() *)
SweepTick ==
    /\ sweep.at = "ticker"
    /\ sweep' = [sweep EXCEPT !.at = "lock"]
    /\ UNCHANGED <<now, backend, shelf, heap, nextRef, nextId, nreq, known, pc, req, txn>>

(* run(): s.Lock() returns and the range over s.shelf starts *)
SweepLock ==
    /\ sweep.at = "lock"
    /\ \A q \in DOMAIN pc : ~Holds(q)
    /\ sweep' = [at |-> "range", keys |-> DOMAIN shelf]
    /\ UNCHANGED <<now, backend, shelf, heap, nextRef, nextId, nreq, known, pc, req, txn>>

(* run(): one iteration of the range, in the order Go picks *)
SweepVisit(key) ==
    /\ sweep.at = "range"
    /\ key \in sweep.keys
    /\ sweep' = [sweep EXCEPT !.keys = @ \ {key}]
    /\ shelf' = IF now > shelf[key].Expiry THEN Drop(shelf, {key}) ELSE shelf
    /\ UNCHANGED <<now, backend, heap, nextRef, nextId, nreq, known, pc, req, txn>>

(* run(): s.Unlock(), back to the ticker *)
SweepUnlock ==
    /\ sweep.at = "range"
    /\ sweep.keys = {}
    /\ sweep' = Asleep
    /\ UNCHANGED <<now, backend, shelf, heap, nextRef, nextId, nreq, known, pc, req, txn>>

LockInit ==
    /\ now = 1
    /\ backend = "memory"
    /\ heap = [r \in {1, 2} |-> EmptyMap]
    /\ shelf = [i \in LockIds |->
                  IF i = 1
                  THEN [Expiry |-> 1 + expiry, Tstamp |-> 1, Token |-> "ruslan", Data |-> MapRef(1)]
                  ELSE [Expiry |-> 1, Tstamp |-> 1, Token |-> "", Data |-> MapRef(2)]]
    /\ nextRef = 3
    /\ nextId = 1
    /\ nreq = 0
    /\ known = {}
    /\ pc = [p \in LockProcs |-> "idle"]
    /\ req = [p \in LockProcs |-> NoLockCall]
    /\ txn = [p \in LockProcs |-> NoTxn]
    /\ sweep = Asleep

LockNext ==
    \/ \E p \in LockProcs : \E id \in LockIds : \E ttl \in LockTtls : LkCreate(p, id, ttl)
    \/ \E p \in LockProcs : \E id \in LockIds : LkRead(p, id)
    \/ \E p \in LockProcs : \E id \in LockIds : \E fn \in {fnTouch} : LkUpdate(p, id, fn)
    \/ \E p \in LockProcs : \E id \in LockIds : LkAssign(p, id)
    \/ \E p \in LockProcs : \E id \in LockIds : LkDelete(p, id)
    \/ \E p \in LockProcs : Lock(p)
    \/ \E p \in LockProcs : RLock(p)
    \/ \E p \in LockProcs : Body(p)
    \/ \E p \in LockProcs : AssignField(p)
    \/ \E p \in LockProcs : Unlock(p)
    \/ SweepTick
    \/ SweepLock
    \/ \E key \in LockIds : SweepVisit(key)
    \/ SweepUnlock
    \/ Tick

LockSpec == LockInit /\ [][LockNext]_vars

(* The records a reader of id may be given: the stored one, or, while a
   closure is part of the way through *ses = *osd, the record as it was
   before the closure started and as it will be when it has finished. *)
MidWrite(q, id) ==
    /\ pc[q] = "body"
    /\ req[q].id = id
    /\ req[q].left # <<>>
    /\ Len(req[q].left) < Len(Fields)

Whole(id) ==
    IF \E q \in DOMAIN pc : MidWrite(q, id)
    THEN UNION {{req[q].pre, req[q].fn.osd} : q \in {r \in DOMAIN pc : MidWrite(r, id)}}
    ELSE IF id \in DOMAIN shelf THEN {shelf[id]} ELSE {}

(* C22: a Read that runs while other goroutines create, update, delete or
   sweep the same identifier returns ErrSessionNoRecord, or a record equal
   to the stored record as it was entirely before or entirely after the
   other operation: never a record with some fields of the old and some of
   the new. *)
C22_ReadWhole ==
    [][\A p \in DOMAIN pc :
        (/\ pc[p] = "body"
         /\ req[p].op = "Read"
         /\ pc'[p] = "unlock") =>
            \/ req'[p].err = ErrSessionNoRecord /\ Whole(req[p].id) = {}
            \/ req'[p].err = Nil /\ req'[p].ses \in Whole(req[p].id)]_vars

(* A Read of record 1 has returned it whole while the other goroutine is
   waiting for the lock to overwrite record 1 with a different record. *)
C22_Witness ==
    \E p, q \in DOMAIN pc :
        /\ pc[p] = "unlock" /\ req[p].op = "Read" /\ req[p].id = 1
        /\ req[p].err = Nil /\ req[p].ses = shelf[1]
        /\ pc[q] = "lock" /\ req[q].op = "Update" /\ req[q].id = 1
        /\ req[q].fn.op = "assign" /\ req[q].fn.osd.Token # shelf[1].Token

----------------------------------------------------------------------------
(* The scheduling MemoryStore relies on.  A goroutine that is running keeps
   running: the body, the deferred unlock and the loop of run() are taken
   when they can be (weak fairness).  sync.Mutex hands the lock to the
   goroutine that has waited longest once it has waited a millisecond, and
   RWMutex.Unlock wakes every waiting reader before another writer may lock,
   so a goroutine that can take the lock again and again does take it
   (strong fairness).  Nothing obliges a caller to call, the ticker to fire
   or the clock to advance. *)
LockFair ==
    /\ \A p \in LockProcs :
        /\ SF_vars(Lock(p))
        /\ SF_vars(RLock(p))
        /\ WF_vars(Body(p))
        /\ WF_vars(AssignField(p))
        /\ WF_vars(Unlock(p))
    /\ SF_vars(SweepLock)
    /\ WF_vars(\E key \in LockIds : SweepVisit(key))
    /\ WF_vars(SweepUnlock)

(* The calls are made on record 1 here; record 2 is left to the sweep, and
   the clock stands still.  The lock is one for the whole store, so who
   waits for whom depends neither on the identifier nor on the time. *)
WaitIds == {1}

FairLockNext ==
    \/ \E p \in LockProcs : \E id \in WaitIds : \E ttl \in LockTtls : LkCreate(p, id, ttl)
    \/ \E p \in LockProcs : \E id \in WaitIds : LkRead(p, id)
    \/ \E p \in LockProcs : \E id \in WaitIds : \E fn \in {fnTouch} : LkUpdate(p, id, fn)
    \/ \E p \in LockProcs : \E id \in WaitIds : LkAssign(p, id)
    \/ \E p \in LockProcs : \E id \in WaitIds : LkDelete(p, id)
    \/ \E p \in LockProcs : Lock(p)
    \/ \E p \in LockProcs : RLock(p)
    \/ \E p \in LockProcs : Body(p)
    \/ \E p \in LockProcs : AssignField(p)
    \/ \E p \in LockProcs : Unlock(p)
    \/ SweepTick
    \/ SweepLock
    \/ \E key \in LockIds : SweepVisit(key)
    \/ SweepUnlock

(* One tick after LockInit: record 2 has expired, record 1 has not. *)
FairLockInit ==
    /\ now = 2
    /\ backend = "memory"
    /\ heap = [r \in {1, 2} |-> EmptyMap]
    /\ shelf = [i \in LockIds |->
                  IF i = 1
                  THEN [Expiry |-> 1 + expiry, Tstamp |-> 1, Token |-> "ruslan", Data |-> MapRef(1)]
                  ELSE [Expiry |-> 1, Tstamp |-> 1, Token |-> "", Data |-> MapRef(2)]]
    /\ nextRef = 3
    /\ nextId = 1
    /\ nreq = 0
    /\ known = {}
    /\ pc = [p \in LockProcs |-> "idle"]
    /\ req = [p \in LockProcs |-> NoLockCall]
    /\ txn = [p \in LockProcs |-> NoTxn]
    /\ sweep = Asleep

FairLockSpec == FairLockInit /\ [][FairLockNext]_vars /\ LockFair

(* C23: on the in-memory store, whatever the interleaving of callers and
   sweep passes, every call of Create, Read, Update or Delete that waits for
   the lock gets it and runs its body, every call that holds the lock
   releases it and returns, and every sweep pass that waits for the lock
   gets it, finishes its range and releases it. *)
C23_NoDeadlock ==
    /\ \A p \in LockProcs : (pc[p] = "lock") ~> (pc[p] = "unlock")
    /\ \A p \in LockProcs : (pc[p] = "unlock") ~> (pc[p] = "idle")
    /\ (sweep.at = "lock") ~> (sweep.at = "range")
    /\ (sweep.at = "range") ~> (sweep.at = "ticker")

(* The sweep and both callers want the lock at once: the sweep and a writer
   wait while a reader holds it. *)
C23_Witness ==
    \E p, q \in LockProcs :
        /\ pc[p] = "body" /\ req[p].op = "Read"
        /\ pc[q] = "lock" /\ req[q].op # "Read"
        /\ sweep.at = "lock"

----------------------------------------------------------------------------
(* The sweep beside a caller that keeps using the store.  The store holds
   record 1, created with the configured expiry, and record 2, created with
   ttl 0; the caller updates them for as long as it likes, as the touch of
   every request does.  The ticker keeps firing and a goroutine that is
   running keeps running: the sweep's steps and the caller's commit are
   taken when they can be.  Nothing obliges the caller to call or the clock
   to advance. *)

SweepProcs == {"c1"}

(* store.Update(id, fn) with the closure of the touch, any number of times *)
SwUpdate(c, id) ==
    /\ pc[c] = "idle"
    /\ LET r == storeUpdate(id, fnTouch)
       IN  /\ Effect(c, r)
           /\ pc' = [pc EXCEPT ![c] = IF r.txn.live THEN "update" ELSE "idle"]
           /\ req' = [req EXCEPT ![c] = Call("Update", id, r.err, req[c].ses)]
    /\ UNCHANGED <<now, backend, nextId, nreq, known>>

SweepInit ==
    /\ now = 1
    /\ backend \in Backends
    /\ heap = IF backend = "memory" THEN [r \in {1, 2} |-> EmptyMap] ELSE [r \in {} |-> EmptyMap]
    /\ shelf = [i \in StoreIds |->
                  LET ttl == IF i = 1 THEN expiry ELSE 0
                  IN  IF backend = "memory"
                      THEN [Expiry |-> 1 + ttl, Tstamp |-> 1, Token |-> "", Data |-> MapRef(i)]
                      ELSE encGob([Expiry |-> 1 + ttl, Tstamp |-> 1, Token |-> "",
                                   Data |-> MapVal(EmptyMap)], heap)]
    /\ nextRef = IF backend = "memory" THEN 3 ELSE 1
    /\ nextId = 1
    /\ nreq = 0
    /\ known = {}
    /\ pc = [c \in SweepProcs |-> "idle"]
    /\ req = [c \in SweepProcs |-> NoCall]
    /\ txn = [c \in SweepProcs |-> NoTxn]
    /\ sweep = NoSweep

SweepNext ==
    \/ \E c \in SweepProcs : \E id \in StoreIds : SwUpdate(c, id)
    \/ \E c \in SweepProcs : StCommit(c)
    \/ Expire
    \/ FsExpire
    \/ FsExpireCommit
    \/ Tick

SweepFair ==
    /\ WF_vars(Expire)
    /\ WF_vars(FsExpire)
    /\ WF_vars(FsExpireCommit)
    /\ \A c \in SweepProcs : WF_vars(StCommit(c))

SweepSpec == SweepInit /\ [][SweepNext]_vars /\ SweepFair

Overdue(id) == id \in DOMAIN shelf /\ now > Record(shelf, heap, id).Expiry

(* C24: while the ticker keeps firing, every stored record whose expiry has
   passed is eventually removed by the sweep, whatever the callers do. *)
C24_EventuallySwept ==
    \A id \in StoreIds : Overdue(id) ~> (id \notin DOMAIN shelf)

----------------------------------------------------------------------------
(* C25: when register (validate found the identifier Invalid, Expired or
   Idle) or Remove has issued a new identifier, the cookie that putCookie
   sets carries that identifier, expires at now + expiry, has the path "/"
   and is HttpOnly. *)
C25_CookieCarries ==
    [][\A p \in DOMAIN pc :
        (/\ pc[p] = "cookie"
         /\ pc'[p] # "cookie"
         /\ \/ Registering(p, {sesInvalid, sesExpired, sesIdle})
            \/ req[p].op = "Remove") =>
            req'[p].out = [id |-> req[p].id, exp |-> now + expiry,
                           path |-> "/", httpOnly |-> TRUE]]_vars

----------------------------------------------------------------------------
(* The step in which Token(r, &t) returns t for session i. *)
TokenWasSet(p, i) ==
    Returned(p, "Token") /\ req'[p].arg # "" /\ req'[p].ctx = i

(* The step in which Token(r, nil) returns for session i. *)
TokenWasRead(p, i) ==
    Returned(p, "Token") /\ req'[p].arg = "" /\ req'[p].ctx = i

(* The step in which reset overwrites the record it has just created under i. *)
Overwrites(p, i) ==
    pc[p] = "resetUpdate" /\ req[p].id = i /\ req[p].op \in {"register", "Reset"}

(* C26: Token(r, &t) leaves the record of the session with the token t and
   every other field as it was; Token(r, nil) returns the token the record
   holds; the token of a stored record changes only when Token(r, &t)
   returns for it or when reset overwrites the record it has just created;
   and a record that Create has just stored has the empty token.  So the
   token that was set is the token read until it is set again or the record
   is renewed or replaced. *)
C26_TokenRoundTrip ==
    [][\A i \in Ids :
        /\ \A p \in DOMAIN pc :
            /\ TokenWasSet(p, i) =>
                  /\ i \in DOMAIN shelf /\ i \in DOMAIN shelf'
                  /\ Record(shelf', heap', i)
                        = [Record(shelf, heap, i) EXCEPT !.Token = req'[p].arg]
                  /\ req'[p].res = req'[p].arg
                  /\ (storeRead(i).ses.Token)' = req'[p].arg
            /\ TokenWasRead(p, i) =>
                  /\ req'[p].res = Record(shelf, heap, i).Token
                  /\ UNCHANGED <<shelf, heap>>
        /\ (/\ i \in DOMAIN shelf /\ i \in DOMAIN shelf'
            /\ Record(shelf', heap', i).Token # Record(shelf, heap, i).Token) =>
               \E p \in DOMAIN pc : TokenWasSet(p, i) \/ Overwrites(p, i)
        /\ (i \notin DOMAIN shelf /\ i \in DOMAIN shelf') =>
               Record(shelf', heap', i).Token = ""]_vars

(* A second request read the token that the first request set, after the
   clock had moved on. *)
C26_Witness ==
    \E p \in DOMAIN pc :
        /\ pc[p] = "called" /\ req[p].op = "Token" /\ req[p].arg = ""
        /\ req[p].err = Nil /\ req[p].res = "ruslan"
        /\ nreq = 2 /\ now > 1
        /\ Record(shelf, heap, req[p].ctx).Token = "ruslan"
        /\ Record(shelf, heap, req[p].ctx).Tstamp > 1

----------------------------------------------------------------------------
(* C27: Reset(w, r, false) in a handler whose session is i reads the record
   of i, stores under a new identifier, different from i, a record with the
   same keys and values and the same token, so that Get under the new
   identifier returns what Get under i returned, and sets the cookie to the
   new identifier. *)
C27_ResetKeeps ==
    [][\A p \in DOMAIN pc : \A i, j \in Ids :
        (req[p].op = "Reset" /\ ~req[p].zero /\ req[p].ctx = i) =>
            /\ (pc[p] = "resetRead" /\ pc'[p] = "resetCreate") =>
                  Plain(req'[p].osd, heap') = Record(shelf, heap, i)
            /\ (pc[p] = "resetUpdate" /\ pc'[p] = "cookie" /\ req[p].id = j) =>
                  /\ j # i
                  /\ j \in DOMAIN shelf'
                  /\ Record(shelf', heap', j).Data = Plain(req[p].osd, heap).Data
                  /\ Record(shelf', heap', j).Token = req[p].osd.Token
                  /\ \A k \in Keys :
                        (getData(j, k))' =
                            IF k \in DOMAIN Plain(req[p].osd, heap).Data
                            THEN [res |-> Plain(req[p].osd, heap).Data[k], err |-> Nil]
                            ELSE [res |-> "", err |-> ErrSessionKeyInvalid]
            /\ (pc[p] = "cookie" /\ pc'[p] = "called" /\ req[p].id = j) =>
                  /\ j # i
                  /\ req'[p].err = Nil
                  /\ req'[p].out = putCookie(j)]_vars

(* Reset has returned in the second request of a session in which the first
   request had stored a value: the cookie names a new identifier whose
   record holds that value. *)
C27_Witness ==
    \E p \in DOMAIN pc :
        /\ pc[p] = "called" /\ req[p].op = "Reset" /\ req[p].err = Nil
        /\ req[p].out.id = req[p].id /\ req[p].id # req[p].ctx
        /\ req[p].id \in DOMAIN shelf
        /\ Record(shelf, heap, req[p].id).Data = MapSet(EmptyMap, "k1", "v1")
        /\ getData(req[p].id, "k1") = [res |-> "v1", err |-> Nil]

----------------------------------------------------------------------------
(* The Manager on a store whose values may stop decoding: the bytes under a
   key of the Badger directory are damaged, or were written by something
   else.  FileStore.Read and FileStore.Update then return the error of
   dec.Decode. *)

(* The value stored under id no longer decodes. *)
Corrupt(id) ==
    /\ backend = "file"
    /\ id \in DOMAIN shelf
    /\ shelf[id] # Garbage
    /\ shelf' = Put(shelf, id, Garbage)
    /\ UNCHANGED <<now, backend, heap, nextRef, nextId, nreq, known, pc, req, txn, sweep>>

FaultInit == Init

FaultNext ==
    \/ \E p \in Procs : \E c \in known \cup {NoId, WrongId} : Start(p, c)
    \/ \E p \in Procs : Validate(p)
    \/ \E p \in Procs : Touch(p)
    \/ \E p \in Procs : ResetRead(p)
    \/ \E p \in Procs : ResetCreate(p)
    \/ \E p \in Procs : ResetUpdate(p)
    \/ \E p \in Procs : NewRecord(p)
    \/ \E p \in Procs : PutCookie(p)
    \/ \E p \in Procs : Commit(p)
    \/ \E p \in Procs : Bare(p)
    \/ \E p \in Procs : \E k \in Keys : \E v \in Vals : Set(p, k, v)
    \/ \E p \in Procs : \E k \in Keys : Delete(p, k)
    \/ \E p \in Procs : \E t \in Toks : TokenSet(p, t)
    \/ \E p \in Procs : \E k \in Keys : Get(p, k)
    \/ \E p \in Procs : TokenGet(p)
    \/ \E p \in Procs : Remove(p)
    \/ \E p \in Procs : \E t \in ResetArgs : Reset(p, t)
    \/ \E p \in Procs : Finish(p)
    \/ \E id \in Ids : Corrupt(id)
    \/ Expire
    \/ FsExpire
    \/ FsExpireCommit
    \/ Tick

FaultSpec == FaultInit /\ [][FaultNext]_vars

(* Errors of the store other than "no record". *)
StoreFaults == {ErrGob, ErrKeyNotFound, ErrConflict}

(* C28: when store.Read fails in validate with an error other than
   ErrSessionNoRecord, register returns that error: no record is created, no
   cookie is set and Use does not call the handler.  An error the store
   returns inside Set, Get, Delete or Token is the error the handler gets. *)
C28_ErrorsSurface ==
    [][\A p \in DOMAIN pc : \A i \in Ids \cup {WrongId} :
        /\ (/\ pc[p] = "validate" /\ pc'[p] # "validate" /\ req[p].id = i
            /\ storeRead(i).err \notin {Nil, ErrSessionNoRecord}) =>
               /\ pc'[p] = "failed"
               /\ req'[p].err = storeRead(i).err
               /\ req'[p].out = NoJar
               /\ req'[p].ctx = NoId
               /\ UNCHANGED <<shelf, nextId, known>>
        /\ pc[p] = "failed" =>
               /\ pc'[p] \in {"failed", "idle"}
               /\ req'[p] \in {req[p], Fresh}
               /\ UNCHANGED <<nextId, known>>
        /\ (/\ pc[p] = "handler" /\ pc'[p] # "handler" /\ req[p].ctx = i
            /\ req'[p].op \in {"Get", "Token"} /\ req'[p].arg = ""
            /\ storeRead(i).err # Nil) =>
               /\ pc'[p] = "called"
               /\ req'[p].err = storeRead(i).err
        /\ (/\ pc[p] = "handler" /\ pc'[p] # "handler" /\ req[p].ctx = i
            /\ req'[p].op \in {"Set", "Delete", "Token"}
            /\ (req'[p].op = "Token" => req'[p].arg # "")
            /\ storeUpdate(i, fnTouch).err # Nil) =>
               /\ pc'[p] = "called"
               /\ req'[p].err = storeUpdate(i, fnTouch).err
        /\ (/\ pc[p] = "update" /\ pc'[p] # "update"
            /\ FsCommit(txn[p]).err # Nil) =>
               /\ pc'[p] = "called"
               /\ req'[p].err = FsCommit(txn[p]).err
        /\ (/\ pc'[p] = "called" /\ pc[p] # "called"
            /\ req'[p].op \in {"Set", "Get", "Delete", "Token"}
            /\ req'[p].err \in StoreFaults) =>
               \/ req'[p].err = storeRead(req[p].ctx).err
               \/ req'[p].err = storeUpdate(req[p].ctx, fnTouch).err
               \/ txn[p].live /\ req'[p].err = FsCommit(txn[p]).err]_vars

(* A request came with the identifier of a record that no longer decodes:
   Use has answered it with the error of Read, and neither a cookie nor a
   new record was made. *)
C28_Witness ==
    \E p \in DOMAIN pc :
        /\ pc[p] = "failed" /\ req[p].op = "register" /\ req[p].err = ErrGob
        /\ req[p].out = NoJar /\ req[p].jar \in DOMAIN shelf
        /\ nextId = 2

----------------------------------------------------------------------------
(* C29: the Data of every stored record is a map, empty perhaps, never nil:
   after Create, after the closures of Set, Delete, Token and the touch, and
   after reset has overwritten the new record with the old one.  In the
   memory store the map is one that exists; no Set has found a nil map. *)
C29_DataPresent ==
    /\ \A i \in DOMAIN shelf :
        /\ Held(shelf, i).Data.tag # "nil"
        /\ Held(shelf, i).Data.tag = "ref" => Held(shelf, i).Data.ref \in DOMAIN heap
    /\ \A p \in DOMAIN pc : req[p].err # Panic

(* Delete has taken the last key out of a record of the file store: the
   record is stored with an empty map. *)
C29_Witness ==
    \E p \in DOMAIN pc :
        /\ backend = "file"
        /\ pc[p] = "called" /\ req[p].op = "Delete" /\ req[p].err = Nil
        /\ req[p].ctx \in DOMAIN shelf
        /\ Held(shelf, req[p].ctx).Data = MapVal(EmptyMap)
        /\ Held(shelf, req[p].ctx).Tstamp > 1

----------------------------------------------------------------------------
(* A record created with ttl <= 0.  store.Create(1, ttl) was called at time
   1 with ttl 0 or -1, so record 1 has Expiry 1 or 0; then requests arrive
   with identifier 1 or with the identifiers the Manager issues, as in
   SeqSpec. *)

ZeroTtls == {-1, 0}

ZeroSession(ttl, d) == [Expiry |-> 1 + ttl, Tstamp |-> 1, Token |-> "", Data |-> d]

ZeroInit ==
    /\ now = 1
    /\ backend \in Backends
    /\ heap = IF backend = "memory" THEN [r \in {1} |-> EmptyMap] ELSE [r \in {} |-> EmptyMap]
    /\ \E ttl \in ZeroTtls :
         shelf = IF backend = "memory"
                 THEN [i \in {1} |-> ZeroSession(ttl, MapRef(1))]
                 ELSE [i \in {1} |-> encGob(ZeroSession(ttl, MapVal(EmptyMap)), heap)]
    /\ nextRef = IF backend = "memory" THEN 2 ELSE 1
    /\ nextId = 2
    /\ nreq = 0
    /\ known = {1}
    /\ pc = [p \in Procs |-> "idle"]
    /\ req = [p \in Procs |-> Fresh]
    /\ txn = [p \in Procs |-> NoTxn]
    /\ sweep = NoSweep

ZeroSpec == ZeroInit /\ [][SeqNext]_vars

(* Record 1 as Create(1, ttl), ttl <= 0, stored it. *)
ZeroTtl(i) == i = 1 /\ i \in DOMAIN shelf /\ Record(shelf, heap, i).Expiry <= 1

(* C30, as stated: a record created with ttl <= 0 is expired from the moment
   it is created: validate of its identifier yields sesExpired at any time
   at or after the creation, and the next pass of the sweep removes it. *)
C30_ZeroTtlExpired ==
    [][\A i \in Ids :
        ZeroTtl(i) =>
            /\ validate(i) = [val |-> sesExpired, err |-> Nil]
            /\ backend = "memory" => i \notin DOMAIN MemExpire.shelf
            /\ (sweep.live /\ sweep' = NoSweep /\ i \in sweep.reads) =>
                   i \notin DOMAIN shelf']_vars

----------------------------------------------------------------------------
(* C31, as stated: a call addressed to one identifier leaves the record
   stored under every other identifier as it was; so after a renewal, Set,
   Delete or Token under the new identifier does not change what is stored
   under the old one. *)
C31_RecordsIndependent ==
    [][\A p \in DOMAIN pc : \A i \in Ids :
        (/\ pc[p] \in {"handler", "update"}
         /\ pc'[p] = "called"
         /\ req'[p].op \in {"Set", "Delete", "Token"}
         /\ req[p].ctx # i
         /\ i \in DOMAIN shelf
         /\ i \in DOMAIN shelf') =>
            Record(shelf', heap', i) = Record(shelf, heap, i)]_vars

----------------------------------------------------------------------------
(* Request p presented i, validate found it Idle, and reset has stored the
   copy of its record under the new identifier of p. *)
Renewed(p, i) ==
    /\ Registering(p, {sesIdle})
    /\ req[p].jar = i
    /\ pc[p] \in {"cookie", "handler"}
    /\ req[p].id # i
    /\ req[p].id \in DOMAIN shelf

(* C32, as stated: of the requests that present the same Idle identifier at
   most one renews it: no two new identifiers hold a copy of its record. *)
C32_RenewedOnce ==
    \A i \in Ids : \A p, q \in DOMAIN pc :
        (Renewed(p, i) /\ Renewed(q, i)) => req[p].id = req[q].id

----------------------------------------------------------------------------
(* C33, as stated: when register (Invalid, Expired, Idle) or Remove sets the
   cookie of a new identifier, the Expires of the cookie is the Expiry of
   the record stored under that identifier. *)
C33_CookieExpiryIsRecords ==
    [][\A p \in DOMAIN pc : \A j \in Ids :
        (/\ pc[p] = "cookie"
         /\ pc'[p] # "cookie"
         /\ req[p].id = j
         /\ j \in DOMAIN shelf
         /\ \/ Registering(p, {sesInvalid, sesExpired, sesIdle})
            \/ req[p].op = "Remove") =>
            req'[p].out.exp = Record(shelf, heap, j).Expiry]_vars

----------------------------------------------------------------------------
(* A handler that goes on calling the Manager after Remove: one goroutine
   serves requests whose handler makes any number of Set, Get, Delete, Token
   and Remove calls. *)

(* The handler goes on after a call returned, while identifiers are left. *)
Further(p) ==
    /\ nextId <= MaxReqs + 1
    /\ Again(p)

RemoveInit == Init

RemoveNext ==
    \/ \E p \in Procs : \E c \in known \cup {NoId} : Start(p, c)
    \/ \E p \in Procs : Validate(p)
    \/ \E p \in Procs : Touch(p)
    \/ \E p \in Procs : ResetRead(p)
    \/ \E p \in Procs : ResetCreate(p)
    \/ \E p \in Procs : ResetUpdate(p)
    \/ \E p \in Procs : NewRecord(p)
    \/ \E p \in Procs : PutCookie(p)
    \/ \E p \in Procs : Commit(p)
    \/ \E p \in Procs : \E k \in Keys : \E v \in Vals : Set(p, k, v)
    \/ \E p \in Procs : \E k \in Keys : Delete(p, k)
    \/ \E p \in Procs : \E k \in Keys : Get(p, k)
    \/ \E p \in Procs : \E t \in Toks : TokenSet(p, t)
    \/ \E p \in Procs : TokenGet(p)
    \/ \E p \in Procs : Remove(p)
    \/ \E p \in Procs : Further(p)
    \/ \E p \in Procs : Finish(p)
    \/ Expire
    \/ FsExpire
    \/ FsExpireCommit
    \/ Tick

RemoveSpec == RemoveInit /\ [][RemoveNext]_vars

(* Remove has returned nil in the request p is serving: the cookie names
   the replacement, the context still holds the identifier Remove deleted. *)
Removed(p) ==
    /\ pc[p] \in {"handler", "called", "update"}
    /\ req[p].out # NoJar
    /\ req[p].ctx # NoId
    /\ req[p].out.id # req[p].ctx

(* C34, as stated: once Remove has succeeded in a request, every further
   Set, Get, Delete and Token of that request returns ErrSessionNoRecord and
   changes nothing in the store, and the replacement record holds no data
   and no token while the request lasts. *)
C34_AfterRemove ==
    [][\A p \in DOMAIN pc :
        Removed(p) =>
            /\ (/\ pc'[p] = "called" /\ pc[p] # "called"
                /\ req'[p].op \in {"Set", "Get", "Delete", "Token"}) =>
                   /\ req'[p].err = ErrSessionNoRecord
                   /\ UNCHANGED <<shelf, heap>>
            /\ req[p].out.id \in DOMAIN shelf =>
                   /\ Record(shelf, heap, req[p].out.id).Data = EmptyMap
                   /\ Record(shelf, heap, req[p].out.id).Token = ""]_vars

====
